---- MODULE Spec2Model ----
(***************************************************************************)
(* Kommo -> Google Docs -> Autentique contract creation.                   *)
(*                                                                         *)
(* The model follows api/webhook.js, lib/kommo.js, lib/google-docs.js,     *)
(* lib/autentique.js, config/settings.js and config/field-mapping.js.      *)
(* An async handler is a machine whose control state is the network call   *)
(* it awaits; one action is the arrival of that call's response (or        *)
(* failure) followed by the synchronous code up to the next await.         *)
(***************************************************************************)
EXTENDS Integers, Sequences, FiniteSets, TLC

VARIABLES
  env,      \* process.env, read once at module load
  crm,      \* the CRM backend: the lead's custom_fields_values and its notes
  drive,    \* the document backend: the documents created so far
  sigs,     \* the signature backend: the submissions received so far
  w,        \* per invocation: the locals of the running handler or client call
  probe     \* a pure function under test: its inputs and its result

vars == <<env, crm, drive, sigs, w, probe>>

-----------------------------------------------------------------------------
(* JavaScript values.  A string is a sequence of tokens: the digits, the     *)
(* blank, the signs and the comma are single characters, any other token is  *)
(* a run of characters that are none of these.                               *)

Undefined == [t |-> "undefined", s |-> <<>>, n |-> 0]
Null      == [t |-> "null", s |-> <<>>, n |-> 0]
Str(s)    == [t |-> "string", s |-> s, n |-> 0]
Num(n)    == [t |-> "number", s |-> <<>>, n |-> n]

\* ToBoolean: undefined, null, "" and 0 are falsy
Truthy(v) ==
  \/ v.t = "string" /\ v.s # <<>>
  \/ v.t = "number" /\ v.n # 0

\* a || b
Or(a, b) == IF Truthy(a) THEN a ELSE b

Digits == <<"0", "1", "2", "3", "4", "5", "6", "7", "8", "9">>

IsDigit(c) == \E d \in 1..Len(Digits) : Digits[d] = c

DigitVal(c) == (CHOOSE d \in 1..Len(Digits) : Digits[d] = c) - 1

NaN == [nan |-> TRUE, n |-> 0]
Finite(n) == [nan |-> FALSE, n |-> n]

RECURSIVE DropBlanks(_)
DropBlanks(s) ==
  IF s # <<>> /\ Head(s) = " " THEN DropBlanks(Tail(s)) ELSE s

\* the value of the longest prefix of digits, given the value read so far
RECURSIVE DigitPrefix(_, _)
DigitPrefix(s, acc) ==
  IF s # <<>> /\ IsDigit(Head(s))
    THEN DigitPrefix(Tail(s), 10 * acc + DigitVal(Head(s)))
    ELSE acc

\* String(v) for the values the model holds
RECURSIVE NatToString(_)
NatToString(n) ==
  IF n < 10 THEN <<Digits[n + 1]>>
  ELSE NatToString(n \div 10) \o <<Digits[(n % 10) + 1]>>

JsString(v) ==
  CASE v.t = "string" -> v.s
    [] v.t = "number" -> IF v.n < 0 THEN <<"-">> \o NatToString(-v.n)
                                    ELSE NatToString(v.n)
    [] v.t = "null" -> <<"null">>
    [] OTHER -> <<"undefined">>

\* parseInt(v): leading blanks are skipped, a sign is read, then the longest
\* run of decimal digits; whatever follows is ignored; NaN without a digit
ParseInt(v) ==
  LET s    == DropBlanks(JsString(v))
      neg  == s # <<>> /\ Head(s) = "-"
      body == IF s # <<>> /\ Head(s) \in {"-", "+"} THEN Tail(s) ELSE s
  IN  IF body = <<>> \/ ~IsDigit(Head(body)) THEN NaN
      ELSE Finite(IF neg THEN -DigitPrefix(body, 0) ELSE DigitPrefix(body, 0))

\* a !== b on numbers: NaN differs from everything, itself included
NumNotSame(a, b) == a.nan \/ b.nan \/ a.n # b.n

-----------------------------------------------------------------------------
(* process.env and config/settings.js                                        *)

EnvNames ==
  {"KOMMO_DOMAIN", "KOMMO_ACCESS_TOKEN", "GOOGLE_SERVICE_ACCOUNT_KEY",
   "KOMMO_TRIGGER_PIPELINE_ID", "KOMMO_TRIGGER_STATUS_ID",
   "GOOGLE_SHARE_WITH", "GOOGLE_SHARE_ROLE",
   "KOMMO_LINK_FIELD_ID", "KOMMO_POST_LINK", "KOMMO_NOTE_TEMPLATE",
   "KOMMO_AUTENTIQUE_LINK_FIELD_ID",
   "AUTENTIQUE_API_KEY", "AUTENTIQUE_SANDBOX",
   "AUTENTIQUE_COMPANY_SIGNER_NAME", "AUTENTIQUE_COMPANY_SIGNER_EMAIL"}

\* s.split(','): the pieces between the commas, one more than there are commas
RECURSIVE SplitComma(_, _)
SplitComma(s, piece) ==
  IF s = <<>> THEN <<piece>>
  ELSE IF Head(s) = "," THEN <<piece>> \o SplitComma(Tail(s), <<>>)
  ELSE SplitComma(Tail(s), Append(piece, Head(s)))

RECURSIVE DropTrailingBlanks(_)
DropTrailingBlanks(s) ==
  IF s # <<>> /\ s[Len(s)] = " "
    THEN DropTrailingBlanks(SubSeq(s, 1, Len(s) - 1)) ELSE s

\* s.trim()
Trim(s) == DropTrailingBlanks(DropBlanks(s))

settings_trigger(e) ==
  [pipelineId |-> Or(e["KOMMO_TRIGGER_PIPELINE_ID"], Null),
   statusId   |-> Or(e["KOMMO_TRIGGER_STATUS_ID"], Null)]

settings_googleDrive(e) ==
  [shareWith |->
     IF Truthy(e["GOOGLE_SHARE_WITH"])
       THEN LET parts == SplitComma(e["GOOGLE_SHARE_WITH"].s, <<>>)
            IN  [k \in 1..Len(parts) |-> Trim(parts[k])]
       ELSE <<>>,
   shareRole |-> Or(e["GOOGLE_SHARE_ROLE"], Str(<<"reader">>))]

DefaultLinkFieldId == Str(<<"7", "6", "8", "1", "3", "7">>)
DefaultNoteTemplate == Str(<<"Contrato criado: ", "{link}">>)

settings_kommo(e) ==
  [linkFieldId           |-> Or(e["KOMMO_LINK_FIELD_ID"], DefaultLinkFieldId),
   postLinkToLead        |-> e["KOMMO_POST_LINK"] = Str(<<"true">>),
   noteTemplate          |-> Or(e["KOMMO_NOTE_TEMPLATE"], DefaultNoteTemplate),
   autentiqueLinkFieldId |-> Or(e["KOMMO_AUTENTIQUE_LINK_FIELD_ID"], Null)]

settings_autentique(e) ==
  [enabled |-> Truthy(e["AUTENTIQUE_API_KEY"]),
   sandbox |-> e["AUTENTIQUE_SANDBOX"] = Str(<<"true">>)]

-----------------------------------------------------------------------------
(* config/field-mapping.js and Object.entries                                *)

fieldMapping ==
  << <<Str(<<"7", "6", "4", "1", "7", "7">>), <<"[Nome Completo]">> >>,
     <<Str(<<"3", "3", "3", "3">>),           <<"[RG]">> >>,
     <<Str(<<"4", "4", "4", "4", "4">>),      <<"[CPF]">> >>,
     <<Str(<<"5", "5", "5", "5">>),           <<"[Endereco]">> >> >>

NomeCompletoFieldId == Str(<<"7", "6", "4", "1", "7", "7">>)
LeadEmailFieldId    == Str(<<"7", "6", "8", "2", "5", "3">>)

\* an array index key: a canonical decimal numeral
IsIndexKey(k) ==
  /\ k.s # <<>>
  /\ \A j \in 1..Len(k.s) : IsDigit(k.s[j])
  /\ (Len(k.s) = 1 \/ Head(k.s) # "0")

\* the pairs of `ps` whose key is (or is not) an index key, in the order of `ps`
RECURSIVE SelectPairs(_, _)
SelectPairs(ps, keepIndexKeys) ==
  IF ps = <<>> THEN <<>>
  ELSE IF IsIndexKey(Head(ps)[1]) = keepIndexKeys
         THEN <<Head(ps)>> \o SelectPairs(Tail(ps), keepIndexKeys)
         ELSE SelectPairs(Tail(ps), keepIndexKeys)

RECURSIVE InsertByKey(_, _)
InsertByKey(p, sorted) ==
  IF sorted = <<>> THEN <<p>>
  ELSE IF ParseInt(p[1]).n < ParseInt(Head(sorted)[1]).n
         THEN <<p>> \o sorted
         ELSE <<Head(sorted)>> \o InsertByKey(p, Tail(sorted))

RECURSIVE SortByKey(_)
SortByKey(ps) ==
  IF ps = <<>> THEN <<>> ELSE InsertByKey(Head(ps), SortByKey(Tail(ps)))

\* Object.entries(obj) for an object literal written in the order `ps`:
\* index keys first in ascending numeric order, then the others as written
ObjectEntries(ps) == SortByKey(SelectPairs(ps, TRUE)) \o SelectPairs(ps, FALSE)

-----------------------------------------------------------------------------
(* lib/kommo.js: getCustomFieldValue                                         *)

\* an array that may be missing (null or undefined)
NoList     == [list |-> FALSE, items |-> <<>>]
ListOf(xs) == [list |-> TRUE, items |-> xs]

\* an element of field.values: an object, or null
ValueEntry(v, code, label) ==
  [object |-> TRUE, value |-> v, enum_code |-> code, enum |-> label]
NullEntry ==
  [object |-> FALSE, value |-> Undefined, enum_code |-> Undefined, enum |-> Undefined]
FieldEntry(id, vals) == [field_id |-> id, values |-> vals]
TextField(id, v) == FieldEntry(id, ListOf(<<ValueEntry(v, Undefined, Undefined)>>))

\* customFields.find(f => f.field_id === parseInt(fieldId)), 0 when none
FindField(items, fieldId) ==
  LET want == ParseInt(fieldId)
      hits == {j \in 1..Len(items) : ~want.nan /\ items[j].field_id = want.n}
  IN  IF hits = {} THEN 0 ELSE CHOOSE j \in hits : \A h \in hits : j <= h

\* the enumeration code tried before the plain value
getCustomFieldValue_CodeFirst(entity, fieldId) ==
  LET customFields == entity.custom_fields_values.items
      at == FindField(customFields, fieldId)
  IN  IF at = 0 \/ ~customFields[at].values.list
           \/ Len(customFields[at].values.items) = 0
        THEN Null
      ELSE LET value == customFields[at].values.items[1]
           IN  IF Truthy(value.enum_code) THEN value.enum_code
               ELSE IF value.value.t # "undefined" THEN value.value
               ELSE IF Truthy(value.enum) THEN value.enum
               ELSE Null

getCustomFieldValue(entity, fieldId) ==
  LET customFields == entity.custom_fields_values.items
      at == FindField(customFields, fieldId)
  IN  IF at = 0 \/ ~customFields[at].values.list
           \/ Len(customFields[at].values.items) = 0
        THEN Null
      ELSE LET value == customFields[at].values.items[1]
           IN  IF value.value.t # "undefined" THEN value.value
               ELSE IF Truthy(value.enum_code) THEN value.enum_code
               ELSE IF Truthy(value.enum) THEN value.enum
               ELSE Null

\* find called on the collection without the `|| []` of line 67
getCustomFieldValue_throws_Unguarded(entity, fieldId) ==
  ~entity.custom_fields_values.list

\* the call raises a TypeError: line 77 reads a property of values[0], which
\* fails when that element is null
getCustomFieldValue_throws(entity, fieldId) ==
  LET customFields == entity.custom_fields_values.items
      at == FindField(customFields, fieldId)
  IN  /\ at # 0
      /\ customFields[at].values.list
      /\ Len(customFields[at].values.items) > 0
      /\ ~customFields[at].values.items[1].object

-----------------------------------------------------------------------------
(* api/webhook.js: shouldTrigger                                             *)

\* shouldTrigger without its status check
shouldTrigger_PipelineOnly(triggerConfig, pipelineId, statusId) ==
  IF ~Truthy(triggerConfig.pipelineId) /\ ~Truthy(triggerConfig.statusId)
    THEN TRUE
  ELSE IF Truthy(triggerConfig.pipelineId)
          /\ NumNotSame(ParseInt(pipelineId), ParseInt(triggerConfig.pipelineId))
    THEN FALSE
  ELSE TRUE

shouldTrigger(triggerConfig, pipelineId, statusId) ==
  IF ~Truthy(triggerConfig.pipelineId) /\ ~Truthy(triggerConfig.statusId)
    THEN TRUE
  ELSE IF Truthy(triggerConfig.pipelineId)
          /\ NumNotSame(ParseInt(pipelineId), ParseInt(triggerConfig.pipelineId))
    THEN FALSE
  ELSE IF Truthy(triggerConfig.statusId)
          /\ NumNotSame(ParseInt(statusId), ParseInt(triggerConfig.statusId))
    THEN FALSE
  ELSE TRUE

-----------------------------------------------------------------------------
(* The settings object, as the handlers read it                              *)

settings ==
  [trigger     |-> settings_trigger(env),
   googleDrive |-> settings_googleDrive(env),
   kommo       |-> settings_kommo(env),
   autentique  |-> settings_autentique(env)]

-----------------------------------------------------------------------------
(* The locals of one invocation                                              *)

NoEvent == [id |-> Undefined, status_id |-> Undefined, pipeline_id |-> Undefined]
NoBody  == [defined |-> FALSE, status0 |-> NoEvent, add0 |-> NoEvent, flat |-> NoEvent]
NoLead  == [name |-> Undefined, custom_fields_values |-> NoList]
NoDocument == [id |-> <<>>, link |-> <<>>]
NoAutentique == [id |-> <<>>, primaryLink |-> <<>>, signatures |-> <<>>]

NoResponse ==
  [status |-> 0, keys |-> {}, success |-> FALSE, message |-> "", error |-> "",
   leadId |-> Undefined, existingLink |-> Undefined,
   documentId |-> <<>>, documentLink |-> <<>>, autentique |-> NoAutentique,
   details |-> Undefined, customFieldsInLead |-> <<>>]

Fresh ==
  [pc |-> "idle", entry |-> "none", log |-> <<>>, failed |-> {},
   raised |-> "", error |-> "",
   req |-> [method |-> "", body |-> NoBody], res |-> NoResponse, nres |-> 0,
   query |-> [lead_id |-> Undefined], fieldInfo |-> <<>>,
   leadId |-> Undefined, lead |-> NoLead, nomeCompleto |-> Undefined,
   title |-> <<>>, replacements |-> <<>>, shareWith |-> <<>>, shareRole |-> Undefined,
   templateText |-> FALSE, newDocId |-> <<>>, requests |-> <<>>, k |-> 0,
   document |-> NoDocument,
   googleDocId |-> <<>>, leadContactEmail |-> Undefined,
   leadContactName |-> Undefined, signers |-> <<>>, posted |-> <<>>,
   autentiqueDocument |-> NoAutentique]

\* the call of a client method, and the await of a network call
Log(st, op)   == [st EXCEPT !.log = Append(@, op)]
Await(st, pc) == [st EXCEPT !.pc = pc]

\* the step `step` ended with the error `e`
Fail(st, step, e) == [st EXCEPT !.failed = @ \cup {step}, !.raised = e]

-----------------------------------------------------------------------------
(* api/webhook.js: the responses                                             *)

\* res.status(status).json(body)
Respond(st, body) ==
  [st EXCEPT !.pc = "responded", !.res = body, !.nres = @ + 1]

respondMethodNotAllowed(st) ==
  Respond(st, [NoResponse EXCEPT !.status = 405, !.keys = {"error"},
                                 !.error = "Method not allowed"])

respondNoLeadId(st) ==
  Respond(st, [NoResponse EXCEPT !.status = 200, !.keys = {"message"},
                                 !.message = "No lead ID in webhook"])

\* the filter's verdict logged but not obeyed
respondNotTriggered_Proceeds(st) ==
  Await(Log([st EXCEPT !.leadId = Or(Or(st.req.body.status0.id, st.req.body.add0.id),
                                     st.req.body.flat.id)],
            "getLead"),
        "kommo.getLead")

respondNotTriggered(st) ==
  Respond(st, [NoResponse EXCEPT !.status = 200, !.keys = {"message"},
                                 !.message = "Trigger conditions not met"])

respondExisting(st, existingContractLink) ==
  Respond(st, [NoResponse EXCEPT
                 !.status = 200,
                 !.keys = {"success", "message", "leadId", "existingLink"},
                 !.success = TRUE,
                 !.message = "Contract already exists, skipping creation",
                 !.leadId = st.leadId,
                 !.existingLink = existingContractLink])

\* no outer catch: the error leaves the handler and nothing is answered
webhookCatch_Rethrows(st, e) == [st EXCEPT !.pc = "threw", !.error = e]

\* the outer catch answering with a server error
webhookCatch_Status500(st, e) ==
  Respond(st, [NoResponse EXCEPT !.status = 500, !.keys = {"success", "error"},
                                 !.success = FALSE, !.error = e])

\* the outer catch: the error is reported in the body of a 200
webhookCatch(st, e) ==
  Respond(st, [NoResponse EXCEPT !.status = 200, !.keys = {"success", "error"},
                                 !.success = FALSE, !.error = e])

respondCreated(st) ==
  Respond(st, [NoResponse EXCEPT
                 !.status = 200,
                 !.keys = {"success", "leadId", "documentId", "documentLink"}
                          \cup (IF st.autentiqueDocument # NoAutentique
                                  THEN {"autentique"} ELSE {}),
                 !.success = TRUE,
                 !.leadId = st.leadId,
                 !.documentId = st.document.id,
                 !.documentLink = st.document.link,
                 !.autentique = st.autentiqueDocument])

-----------------------------------------------------------------------------
(* api/webhook.js: the auxiliary steps, last to first                        *)

\* noteTemplate.replace('{link}', link): the first occurrence only
RECURSIVE ReplaceFirst(_, _, _)
ReplaceFirst(s, token, by) ==
  IF s = <<>> THEN <<>>
  ELSE IF Head(s) = token THEN by \o Tail(s)
  ELSE <<Head(s)>> \o ReplaceFirst(Tail(s), token, by)

noteText(st) ==
  ReplaceFirst(settings.kommo.noteTemplate.s, "{link}", st.document.link)
    \o (IF st.autentiqueDocument.primaryLink # <<>>
          THEN <<"\nAutentique: ">> \o st.autentiqueDocument.primaryLink
          ELSE <<>>)

\* lines 170-206
noteStep(st) ==
  IF settings.kommo.postLinkToLead
    THEN Await(Log(st, "addNoteToLead"), "kommo.addNoteToLead")
    ELSE respondCreated(st)

\* lines 158-168
linkFieldStep(st) ==
  IF Truthy(settings.kommo.linkFieldId)
    THEN Await(Log(st, "updateLeadCustomField:link"), "kommo.updateLink")
    ELSE noteStep(st)

\* a failed note answered by an update of the link field
onNoteError_ThenLinkField(st, e) ==
  IF "addNoteToLead" \in st.failed
    THEN respondCreated(Fail(st, "addNoteToLead", e))
    ELSE Await(Log(Fail(st, "addNoteToLead", e), "updateLeadCustomField:link"),
               "kommo.updateLink")

\* the catch of line 183
onNoteError(st, e) == respondCreated(Fail(st, "addNoteToLead", e))

\* a failed field update tried a second time
onLinkFieldError_RetryOnce(st, e) ==
  IF "updateLeadCustomField:link" \in st.failed
    THEN noteStep(Fail(st, "updateLeadCustomField:link", e))
    ELSE Await(Log(Fail(st, "updateLeadCustomField:link", e),
                   "updateLeadCustomField:link"),
               "kommo.updateLink")

\* the field update without a catch of its own
onLinkFieldError_Uncaught(st, e) ==
  webhookCatch(Fail(st, "updateLeadCustomField:link", e), e)

\* the catch of line 164
onLinkFieldError(st, e) == noteStep(Fail(st, "updateLeadCustomField:link", e))

\* the catch of line 146
onAutentiqueFieldError(st, e) ==
  linkFieldStep(Fail(st, "updateLeadCustomField:autentique", e))

\* the catch of line 152
onSignatureError(st, e) ==
  linkFieldStep(Fail(st, "sendContractForSignature", e))

-----------------------------------------------------------------------------
(* lib/autentique.js                                                         *)

\* the constructor: the API key and the service-account JSON are required
ValidJson(v) == v.t = "string" /\ v.s # <<>> /\ Head(v.s) = "{json}"

AutentiqueClient_error(e) ==
  IF ~Truthy(e["AUTENTIQUE_API_KEY"])
    THEN "AUTENTIQUE_API_KEY must be set in environment variables"
  ELSE IF ~ValidJson(e["GOOGLE_SERVICE_ACCOUNT_KEY"]) THEN "SyntaxError"
  ELSE ""

\* a client that never asks for the sandbox
AutentiqueClient_sandbox_Off(e) == FALSE

\* this.sandbox
AutentiqueClient_sandbox(e) == e["AUTENTIQUE_SANDBOX"] = Str(<<"true">>)

\* buildCreateDocumentMutation: the variables of the request
buildCreateDocumentMutation(documentName, signers) ==
  [document |-> [name |-> documentName],
   signers  |-> [k \in 1..Len(signers) |->
                   [email  |-> signers[k].email,
                    action |-> Or(signers[k].action, Str(<<"SIGN">>))]],
   sandbox  |-> AutentiqueClient_sandbox(env)]

PanelLink(id) == <<"https://painel.autentique.com.br/documentos/">> \o id

\* webhook.js lines 134-150: the signature link goes to its own field
afterSignature(st) ==
  IF Truthy(settings.kommo.autentiqueLinkFieldId)
    THEN Await(Log(st, "updateLeadCustomField:autentique"),
               "kommo.updateAutentiqueLink")
    ELSE linkFieldStep(st)

sendContractForSignature_return(st, doc) ==
  IF st.entry = "sendContractForSignature"
    THEN [st EXCEPT !.pc = "returned", !.autentiqueDocument = doc]
    ELSE afterSignature([st EXCEPT !.autentiqueDocument = doc])

\* the catch of lines 253-256 throws the error on
sendContractForSignature_throw(st, e) ==
  IF st.entry = "sendContractForSignature"
    THEN [st EXCEPT !.pc = "threw", !.error = e]
    ELSE onSignatureError(st, e)

\* createDocument up to its axios.post
createDocument(st, documentName, signers) ==
  LET request == [variables |-> buildCreateDocumentMutation(documentName, signers),
                  file      |-> st.googleDocId]
  IN  Await(Log([st EXCEPT !.signers = signers, !.posted = Append(@, request)],
                "createDocument"),
            "autentique.post")

\* the company signer pushed without a look at its e-mail
afterExport_NoCompanyCheck(st) ==
  LET companyName  == env["AUTENTIQUE_COMPANY_SIGNER_NAME"]
      companyEmail == env["AUTENTIQUE_COMPANY_SIGNER_EMAIL"]
  IN  IF ~Truthy(st.leadContactEmail)
        THEN sendContractForSignature_throw(
               Fail(st, "leadContactEmail", "Lead contact email is required"),
               "Lead contact email is required")
      ELSE createDocument(st, st.title,
             << [name   |-> Or(companyName, Str(<<"Company Representative">>)),
                 email  |-> companyEmail,
                 action |-> Str(<<"SIGN">>)],
                [name   |-> Or(st.leadContactName, Str(<<"Client">>)),
                 email  |-> st.leadContactEmail,
                 action |-> Str(<<"SIGN">>)] >>)

\* the signers pushed in the other order, the counterparty first
afterExport_LeadFirst(st) ==
  LET companyName  == env["AUTENTIQUE_COMPANY_SIGNER_NAME"]
      companyEmail == env["AUTENTIQUE_COMPANY_SIGNER_EMAIL"]
  IN  IF ~Truthy(st.leadContactEmail)
        THEN sendContractForSignature_throw(
               Fail(st, "leadContactEmail", "Lead contact email is required"),
               "Lead contact email is required")
      ELSE IF ~Truthy(companyEmail)
        THEN sendContractForSignature_throw(
               Fail(st, "companySigner",
                    "AUTENTIQUE_COMPANY_SIGNER_EMAIL must be set in environment variables"),
               "AUTENTIQUE_COMPANY_SIGNER_EMAIL must be set in environment variables")
      ELSE createDocument(st, st.title,
             << [name   |-> Or(st.leadContactName, Str(<<"Client">>)),
                 email  |-> st.leadContactEmail,
                 action |-> Str(<<"SIGN">>)],
                [name   |-> Or(companyName, Str(<<"Company Representative">>)),
                 email  |-> companyEmail,
                 action |-> Str(<<"SIGN">>)] >>)

\* lines 206-235: what follows the export of the PDF
afterExport(st) ==
  LET companyName  == env["AUTENTIQUE_COMPANY_SIGNER_NAME"]
      companyEmail == env["AUTENTIQUE_COMPANY_SIGNER_EMAIL"]
  IN  IF ~Truthy(companyEmail)
        THEN sendContractForSignature_throw(
               Fail(st, "companySigner",
                    "AUTENTIQUE_COMPANY_SIGNER_EMAIL must be set in environment variables"),
               "AUTENTIQUE_COMPANY_SIGNER_EMAIL must be set in environment variables")
      ELSE IF ~Truthy(st.leadContactEmail)
        THEN sendContractForSignature_throw(
               Fail(st, "leadContactEmail", "Lead contact email is required"),
               "Lead contact email is required")
      ELSE createDocument(st, st.title,
             << [name   |-> Or(companyName, Str(<<"Company Representative">>)),
                 email  |-> companyEmail,
                 action |-> Str(<<"SIGN">>)],
                [name   |-> Or(st.leadContactName, Str(<<"Client">>)),
                 email  |-> st.leadContactEmail,
                 action |-> Str(<<"SIGN">>)] >>)

\* line 204: the method begins with the export
sendContractForSignature(st) ==
  Await(Log(Log(st, "sendContractForSignature"), "exportDocumentAsPdf"),
        "drive.files.export")

\* the contract sent whatever the lead's e-mail field holds
afterCreateContract_NoEmailCheck(st) ==
  IF ~settings.autentique.enabled THEN linkFieldStep(st)
  ELSE IF AutentiqueClient_error(env) # ""
    THEN onSignatureError(st, AutentiqueClient_error(env))
  ELSE sendContractForSignature(
         [st EXCEPT !.googleDocId = st.document.id,
                    !.leadContactEmail = getCustomFieldValue(st.lead, LeadEmailFieldId),
                    !.leadContactName = st.nomeCompleto])

\* webhook.js lines 108-132
afterCreateContract(st) ==
  IF ~settings.autentique.enabled THEN linkFieldStep(st)
  ELSE LET leadContactEmail == getCustomFieldValue(st.lead, LeadEmailFieldId)
       IN  IF ~Truthy(leadContactEmail) THEN linkFieldStep(st)
           ELSE IF AutentiqueClient_error(env) # ""
             THEN onSignatureError(st, AutentiqueClient_error(env))
           ELSE sendContractForSignature(
                  [st EXCEPT !.googleDocId = st.document.id,
                             !.leadContactEmail = leadContactEmail,
                             !.leadContactName = st.nomeCompleto])

-----------------------------------------------------------------------------
(* lib/google-docs.js                                                        *)

WebViewLink(id) == <<"https://docs.google.com/document/d/">> \o id \o <<"/edit">>

createContract_return(st, doc) ==
  IF st.entry = "createContract"
    THEN [st EXCEPT !.pc = "returned", !.document = doc]
    ELSE afterCreateContract([st EXCEPT !.document = doc])

\* a catch that throws an error of its own
createContract_catch_Wrapped(error) == "Error creating contract"

\* the catch of lines 316-319 throws the error on
createContract_catch(error) == error

\* a webhook that goes on to its link field after a failed createContract
createContract_throw_GoesOn(st, e) ==
  IF st.entry = "createContract"
    THEN [st EXCEPT !.pc = "threw", !.error = createContract_catch(e)]
    ELSE linkFieldStep([st EXCEPT !.failed = @ \cup {"createContract"}])

createContract_throw(st, e) ==
  IF st.entry = "createContract"
    THEN [st EXCEPT !.pc = "threw", !.error = createContract_catch(e)]
    ELSE webhookCatch([st EXCEPT !.failed = @ \cup {"createContract"}],
                      createContract_catch(e))

\* the catch of each method throws the error on to createContract
method_catch(error) == error

method_throw(st, method, e) ==
  IF st.entry = method
    THEN [Fail(st, method, e) EXCEPT !.pc = "threw", !.error = method_catch(e)]
    ELSE createContract_throw(Fail(st, method, e), method_catch(e))

\* Step 4
getShareableLink(st) ==
  Await(Log(st, "getShareableLink"), "drive.permissions.create:anyone")

shareDocument_return(st) ==
  IF st.entry = "shareDocument"
    THEN [st EXCEPT !.pc = "returned"] ELSE getShareableLink(st)

\* a list of roles that lets the owner role through
ValidRoles_WithOwner ==
  {Str(<<"reader">>), Str(<<"writer">>), Str(<<"commenter">>), Str(<<"owner">>)}

ValidRoles == {Str(<<"reader">>), Str(<<"writer">>), Str(<<"commenter">>)}

\* shareDocument up to its first permission grant
shareDocument(st) ==
  IF st.shareRole \notin ValidRoles
    THEN method_throw(Log(st, "shareDocument"), "shareDocument", "Invalid role")
  ELSE IF Len(st.shareWith) = 0 THEN shareDocument_return(Log(st, "shareDocument"))
  ELSE Await([Log(st, "shareDocument") EXCEPT !.k = 1],
             "drive.permissions.create:user")

\* sharing whatever the list holds
mustShare_Always(shareWith) == TRUE

\* Step 3: share with users if specified
mustShare(shareWith) == Len(shareWith) > 0

\* the link built from the id, without asking the backend
shareStep_NoLinkFetch(st) ==
  IF mustShare(st.shareWith) THEN shareDocument(st)
  ELSE createContract_return(st, [id |-> st.newDocId,
                                  link |-> WebViewLink(st.newDocId)])

shareStep(st) ==
  IF mustShare(st.shareWith) THEN shareDocument(st) ELSE getShareableLink(st)

\* every falsy value skipped, the empty string with null and undefined
RECURSIVE replaceRequests_SkipFalsy(_)
replaceRequests_SkipFalsy(entries) ==
  IF entries = <<>> THEN <<>>
  ELSE LET placeholder == Head(entries)[1]
           value == Head(entries)[2]
       IN  IF ~Truthy(value)
             THEN replaceRequests_SkipFalsy(Tail(entries))
             ELSE << [text        |-> placeholder.s,
                      matchCase   |-> TRUE,
                      replaceText |-> JsString(value)] >>
                  \o replaceRequests_SkipFalsy(Tail(entries))

\* the requests of replacePlaceholders, one per entry that has a value
RECURSIVE replaceRequests(_)
replaceRequests(entries) ==
  IF entries = <<>> THEN <<>>
  ELSE LET placeholder == Head(entries)[1]
           value == Head(entries)[2]
       IN  IF value.t \in {"null", "undefined"}
             THEN replaceRequests(Tail(entries))
             ELSE << [text        |-> placeholder.s,
                      matchCase   |-> TRUE,
                      replaceText |-> JsString(value)] >>
                  \o replaceRequests(Tail(entries))

replacePlaceholders_return(st) ==
  IF st.entry = "replacePlaceholders"
    THEN [st EXCEPT !.pc = "returned"] ELSE shareStep(st)

\* Step 2
replacePlaceholders(st) ==
  LET requests == replaceRequests(ObjectEntries(st.replacements))
      called   == Log(st, "replacePlaceholders")
  IN  IF Len(requests) = 0 THEN replacePlaceholders_return(called)
      ELSE Await([called EXCEPT !.requests = requests],
                 "docs.documents.batchUpdate:replace")

\* Step 1
copyTemplate(st) == Await(Log(st, "copyTemplate"), "docs.documents.get")

createContract(st) == copyTemplate(Log(st, "createContract"))

-----------------------------------------------------------------------------
(* api/webhook.js: from the request to createContract                        *)

\* replacements[placeholder] = value
ObjectSet(obj, key, value) ==
  IF \E j \in 1..Len(obj) : obj[j][1] = key
    THEN [j \in 1..Len(obj) |-> IF obj[j][1] = key THEN <<key, value>> ELSE obj[j]]
    ELSE Append(obj, <<key, value>>)

\* lines 82-88
RECURSIVE buildReplacements(_, _, _)
buildReplacements(entries, lead, replacements) ==
  IF entries = <<>> THEN replacements
  ELSE LET fieldId == Head(entries)[1]
           placeholder == Head(entries)[2]
           value == getCustomFieldValue(lead, fieldId)
       IN  buildReplacements(Tail(entries), lead,
             ObjectSet(replacements, Str(placeholder), Or(value, Str(<<>>))))

\* lines 91-93; the date is the day of the invocation
nomeCompleto(lead) ==
  Or(getCustomFieldValue(lead, NomeCompletoFieldId), lead.name)

documentTitle(nome) == <<"Contrato - ">> \o JsString(nome) \o <<" - ", "<date>">>

\* no check of the existing link
contractExists_Never(existingContractLink) == FALSE

\* line 69
contractExists(existingContractLink) == Truthy(existingContractLink)

\* lines 63-104: what follows the fetch of the lead
afterGetLead(st) ==
  LET existingContractLink ==
        getCustomFieldValue(st.lead, settings.kommo.linkFieldId)
  IN  IF contractExists(existingContractLink)
        THEN respondExisting(st, existingContractLink)
        ELSE createContract(
               [st EXCEPT
                  !.replacements =
                     buildReplacements(ObjectEntries(fieldMapping), st.lead, <<>>),
                  !.nomeCompleto = nomeCompleto(st.lead),
                  !.title = documentTitle(nomeCompleto(st.lead)),
                  !.shareWith = settings.googleDrive.shareWith,
                  !.shareRole = settings.googleDrive.shareRole])

\* the constructors of lines 57-58
KommoClient_error(e) ==
  IF ~Truthy(e["KOMMO_DOMAIN"]) \/ ~Truthy(e["KOMMO_ACCESS_TOKEN"])
    THEN "KOMMO_DOMAIN and KOMMO_ACCESS_TOKEN must be set in environment variables"
    ELSE ""

GoogleDocsClient_error(e) ==
  IF ~Truthy(e["GOOGLE_SERVICE_ACCOUNT_KEY"])
    THEN "GOOGLE_SERVICE_ACCOUNT_KEY must be set in environment variables"
  ELSE IF ~ValidJson(e["GOOGLE_SERVICE_ACCOUNT_KEY"])
    THEN "Invalid GOOGLE_SERVICE_ACCOUNT_KEY JSON format"
  ELSE ""

\* no check of the method
methodAllowed_Any(method) == TRUE

\* line 19
methodAllowed(method) == method = "POST"

\* lines 31-33
leadId(webhookData) ==
  Or(Or(webhookData.status0.id, webhookData.add0.id), webhookData.flat.id)

\* the status id read from the flat key first
newStatusId_FlatFirst(webhookData) ==
  Or(webhookData.flat.status_id, webhookData.status0.status_id)

\* lines 35-36
newStatusId(webhookData) ==
  Or(webhookData.status0.status_id, webhookData.flat.status_id)

\* lines 38-39
newPipelineId(webhookData) ==
  Or(webhookData.status0.pipeline_id, webhookData.flat.pipeline_id)

\* lines 17-62: from the request to the fetch of the lead
handler(st) ==
  IF ~methodAllowed(st.req.method) THEN respondMethodNotAllowed(st)
  ELSE IF ~st.req.body.defined THEN webhookCatch(st, "TypeError")
  ELSE LET webhookData == st.req.body
       IN  IF ~Truthy(leadId(webhookData)) THEN respondNoLeadId(st)
           ELSE IF ~shouldTrigger(settings.trigger, newPipelineId(webhookData),
                                  newStatusId(webhookData))
             THEN respondNotTriggered(st)
           ELSE IF KommoClient_error(env) # ""
             THEN webhookCatch(st, KommoClient_error(env))
           ELSE IF GoogleDocsClient_error(env) # ""
             THEN webhookCatch(st, GoogleDocsClient_error(env))
           ELSE Await(Log([st EXCEPT !.leadId = leadId(webhookData)], "getLead"),
                      "kommo.getLead")

-----------------------------------------------------------------------------
(* api/list-fields.js                                                        *)

\* line 14
listMethodAllowed(method) == method = "GET"

\* field.values?.[0]: undefined without values, and for a null first value
\* every property read through ?. is undefined
firstValue(field) ==
  IF field.values.list /\ Len(field.values.items) > 0
       /\ field.values.items[1].object
    THEN field.values.items[1]
    ELSE NullEntry

\* line 43
resolvedValue(field) ==
  Or(Or(Or(firstValue(field).value, firstValue(field).enum_code),
        firstValue(field).enum),
     Null)

\* lines 36-45
fieldInfo(lead) ==
  LET customFields == lead.custom_fields_values.items
  IN  [j \in 1..Len(customFields) |->
         [id        |-> customFields[j].field_id,
          value     |-> resolvedValue(customFields[j]),
          rawValues |-> customFields[j].values]]

\* a catch that reports the error as the webhook does, in a 200
listFields_catch_Status200(st, e, data) == webhookCatch(st, e)

\* lines 69-76: error.response?.data || null
listFields_catch(st, e, data) ==
  Respond(st, [NoResponse EXCEPT !.status = 500, !.keys = {"error", "details"},
                                 !.error = e, !.details = Or(data, Null)])

\* lines 52-67
listFields_respond(st) ==
  Respond(st, [NoResponse EXCEPT
                 !.status = 200,
                 !.keys = {"lead", "customFieldsInLead", "allAvailableFields", "hint"},
                 !.customFieldsInLead = st.fieldInfo])

\* lines 33-49: what follows the fetch of the lead
listFields_afterGetLead(st) ==
  Await(Log([st EXCEPT !.fieldInfo = fieldInfo(st.lead)], "getCustomFields"),
        "kommo.getCustomFields")

\* lines 12-32: from the request to the fetch of the lead
listFields(st) ==
  IF ~listMethodAllowed(st.req.method)
    THEN Respond(st, [NoResponse EXCEPT !.status = 405, !.keys = {"error"},
                                        !.error = "Method not allowed"])
  ELSE IF ~Truthy(st.query.lead_id)
    THEN Respond(st, [NoResponse EXCEPT !.status = 400, !.keys = {"error", "usage"},
                                        !.error = "Missing lead_id parameter"])
  ELSE IF KommoClient_error(env) # ""
    THEN listFields_catch(st, KommoClient_error(env), Undefined)
  ELSE Await(Log([st EXCEPT !.leadId = st.query.lead_id], "getLead"),
             "kommo.getLead")

\* getLead answers the handler that called it
getLead_return(st, leadData) ==
  IF st.entry = "listFields"
    THEN listFields_afterGetLead([st EXCEPT !.lead = leadData])
    ELSE afterGetLead([st EXCEPT !.lead = leadData])

getLead_throw(st, e, data) ==
  IF st.entry = "listFields"
    THEN listFields_catch(Fail(st, "getLead", e), e, data)
    ELSE webhookCatch(Fail(st, "getLead", e), e)

-----------------------------------------------------------------------------
(* The backends                                                              *)

\* the network error of a call is named after the call
NetworkError(call) == call

DocId(n) == <<"doc">> \o NatToString(n)
AutentiqueId(n) == <<"aut">> \o NatToString(n)

NewFile(id) == [id |-> id, text |-> FALSE, batches |-> <<>>, permissions |-> <<>>]

\* the index in `drive` of the document `id`
FileAt(id) == CHOOSE j \in 1..Len(drive) : drive[j].id = id

\* PATCH /leads/{id}: the field's values become [{value}]
PatchedFields(cfv, fieldId, value) ==
  LET id == ParseInt(fieldId).n
      entry == TextField(id, value)
  IN  IF \E j \in 1..Len(cfv.items) : cfv.items[j].field_id = id
        THEN ListOf([j \in 1..Len(cfv.items) |->
                       IF cfv.items[j].field_id = id THEN entry ELSE cfv.items[j]])
        ELSE ListOf(Append(cfv.items, entry))

\* the createDocument mutation answers with the document and its signatures
CreatedDocument(id, request) ==
  [id |-> id,
   primaryLink |-> PanelLink(id),
   signatures |->
     [k \in 1..Len(request.variables.signers) |->
        [publicId |-> <<"sig">> \o NatToString(k),
         email    |-> request.variables.signers[k].email,
         name     |-> request.variables.signers[k].email,
         action   |-> request.variables.signers[k].action]]]

-----------------------------------------------------------------------------
(* The requests, the environments and the leads of the webhook               *)

Event(id, status, pipeline) ==
  [id |-> id, status_id |-> status, pipeline_id |-> pipeline]

Body(status0, add0, flat) ==
  [defined |-> TRUE, status0 |-> status0, add0 |-> add0, flat |-> flat]

Requests ==
  { [method |-> "GET",  body |-> NoBody],
    [method |-> "POST", body |-> NoBody],
    [method |-> "POST", body |-> Body(NoEvent, NoEvent, NoEvent)],
    [method |-> "POST", body |-> Body(Event(Num(42), Num(9), Num(7)), NoEvent, NoEvent)],
    [method |-> "POST", body |-> Body(Event(Num(42), Num(9), Num(8)), NoEvent, NoEvent)],
    [method |-> "POST", body |-> Body(NoEvent, Event(Num(42), Undefined, Undefined), NoEvent)],
    [method |-> "POST",
     body |-> Body(NoEvent, NoEvent,
                   Event(Str(<<"4", "2">>), Str(<<"9">>), Str(<<"7">>)))] }

BaseEnv ==
  [n \in EnvNames |->
     CASE n = "KOMMO_DOMAIN" -> Str(<<"https://company.kommo.com">>)
       [] n = "KOMMO_ACCESS_TOKEN" -> Str(<<"token">>)
       [] n = "GOOGLE_SERVICE_ACCOUNT_KEY" -> Str(<<"{json}">>)
       [] OTHER -> Undefined]

EmailPool == <<"ana@x.com", "bob@x.com", "eva@x.com", "joe@x.com">>

\* GOOGLE_SHARE_WITH naming the first n addresses of the pool
RECURSIVE ShareWithEnv(_)
ShareWithEnv(n) ==
  IF n = 0 THEN <<>>
  ELSE IF n = 1 THEN <<EmailPool[1]>>
  ELSE ShareWithEnv(n - 1) \o <<",", " ", EmailPool[n]>>

MaxShare == 2

OnOff(name) == {Undefined, Str(<<name>>)}

WebhookEnvs ==
  { [BaseEnv EXCEPT
       !["KOMMO_TRIGGER_PIPELINE_ID"] = trigger[1],
       !["KOMMO_TRIGGER_STATUS_ID"] = trigger[2],
       !["GOOGLE_SHARE_WITH"] = Str(ShareWithEnv(share[1])),
       !["GOOGLE_SHARE_ROLE"] = share[2],
       !["KOMMO_POST_LINK"] = post,
       !["KOMMO_AUTENTIQUE_LINK_FIELD_ID"] = aut[1],
       !["AUTENTIQUE_API_KEY"] = aut[2],
       !["AUTENTIQUE_SANDBOX"] = aut[3],
       !["AUTENTIQUE_COMPANY_SIGNER_EMAIL"] = aut[4]] :
     trigger \in { <<Undefined, Undefined>>, <<Str(<<"7">>), Undefined>>,
                   <<Str(<<"7">>), Str(<<"9">>)>> },
     share \in ({0} \X {Undefined})
                 \cup ((1..MaxShare) \X {Undefined, Str(<<"owner">>)}),
     post \in OnOff("true"),
     aut \in {<<Undefined, Undefined, Undefined, Undefined>>}
               \cup (OnOff("900001") \X {Str(<<"key">>)} \X OnOff("true")
                       \X OnOff("firma@x.com")) }
  \cup { [BaseEnv EXCEPT !["KOMMO_ACCESS_TOKEN"] = Undefined],
         [BaseEnv EXCEPT !["GOOGLE_SERVICE_ACCOUNT_KEY"] = Undefined],
         [BaseEnv EXCEPT !["GOOGLE_SERVICE_ACCOUNT_KEY"] = Str(<<"{json">>)] }

LinkFieldNumber == 768137
EmailFieldNumber == 768253

\* the fields of a lead, given its link and its e-mail (Undefined: no such field)
LeadWith(link, email) ==
  LET fields ==
        (IF link = Undefined THEN <<>> ELSE <<TextField(LinkFieldNumber, link)>>)
        \o (IF email = Undefined THEN <<>> ELSE <<TextField(EmailFieldNumber, email)>>)
  IN  [name |-> Str(<<"Lead 42">>),
       custom_fields_values |-> IF fields = <<>> THEN NoList ELSE ListOf(fields)]

Leads ==
  { LeadWith(link, email) :
      link \in {Undefined, Str(<<>>), Str(<<"https://docs.google.com/document/d/old/edit">>)},
      email \in {Undefined, Str(<<"cliente@x.com">>)} }

NoProbe == [op |-> "none"]

\* the invocations that may be in flight together
Slots == {1, 2}

-----------------------------------------------------------------------------
(* The webhook invocation: the request, then one action per awaited call     *)

Others == <<env, probe>>

\* POST /api/webhook arrives
webhook(i) ==
  /\ w[i].pc = "idle"
  /\ \E req \in Requests :
       w' = [w EXCEPT ![i] = handler([Fresh EXCEPT !.entry = "webhook", !.req = req])]
  /\ UNCHANGED <<crm, drive, sigs, Others>>

\* error.response?.data: absent when no answer came, else the body of the answer
ErrorData == {Undefined, Str(<<"Not found">>)}

\* kommo.js getLead: GET /leads/{id}
kommo_getLead(i) ==
  /\ w[i].pc = "kommo.getLead"
  /\ \/ \E data \in ErrorData :
          w' = [w EXCEPT ![i] = getLead_throw(@, NetworkError("kommo.getLead"), data)]
     \/ w' = [w EXCEPT ![i] = getLead_return(@, crm.lead)]
  /\ UNCHANGED <<crm, drive, sigs, Others>>

\* copyTemplate: the template is read
docs_documents_get(i) ==
  /\ w[i].pc = "docs.documents.get"
  /\ \/ w' = [w EXCEPT ![i] =
                method_throw(@, "copyTemplate", NetworkError("docs.documents.get"))]
     \/ \E templateText \in BOOLEAN :
          w' = [w EXCEPT ![i] =
                  Await([@ EXCEPT !.templateText = templateText], "drive.files.create")]
  /\ UNCHANGED <<crm, drive, sigs, Others>>

\* copyTemplate: the new document is created
drive_files_create(i) ==
  /\ w[i].pc = "drive.files.create"
  /\ \/ /\ w' = [w EXCEPT ![i] =
                   method_throw(@, "copyTemplate", NetworkError("drive.files.create"))]
        /\ UNCHANGED drive
     \/ LET newDocId == DocId(Len(drive) + 1)
            st == [w[i] EXCEPT !.newDocId = newDocId]
        IN  /\ drive' = Append(drive, NewFile(newDocId))
            /\ w' = [w EXCEPT ![i] =
                       IF st.templateText
                         THEN Await(st, "docs.documents.batchUpdate:insert")
                         ELSE replacePlaceholders(st)]
  /\ UNCHANGED <<crm, sigs, Others>>

\* copyTemplate: the text of the template is inserted
docs_batchUpdate_insert(i) ==
  /\ w[i].pc = "docs.documents.batchUpdate:insert"
  /\ \/ /\ w' = [w EXCEPT ![i] =
                   method_throw(@, "copyTemplate",
                                NetworkError("docs.documents.batchUpdate:insert"))]
        /\ UNCHANGED drive
     \/ /\ drive' = [drive EXCEPT ![FileAt(w[i].newDocId)].text = TRUE]
        /\ w' = [w EXCEPT ![i] = replacePlaceholders(@)]
  /\ UNCHANGED <<crm, sigs, Others>>

\* replacePlaceholders: the one batched update
docs_batchUpdate_replace(i) ==
  /\ w[i].pc = "docs.documents.batchUpdate:replace"
  /\ \/ /\ w' = [w EXCEPT ![i] =
                   method_throw(@, "replacePlaceholders",
                                NetworkError("docs.documents.batchUpdate:replace"))]
        /\ UNCHANGED drive
     \/ /\ drive' = [drive EXCEPT ![FileAt(w[i].newDocId)].batches =
                                     Append(@, w[i].requests)]
        /\ w' = [w EXCEPT ![i] = replacePlaceholders_return(@)]
  /\ UNCHANGED <<crm, sigs, Others>>

\* shareDocument: one grant per address, in the order of the list
drive_permissions_create_user(i) ==
  /\ w[i].pc = "drive.permissions.create:user"
  /\ \/ /\ w' = [w EXCEPT ![i] =
                   method_throw(@, "shareDocument",
                                NetworkError("drive.permissions.create:user"))]
        /\ UNCHANGED drive
     \/ /\ drive' = [drive EXCEPT ![FileAt(w[i].newDocId)].permissions =
                       Append(@, [type |-> "user", role |-> w[i].shareRole.s,
                                  emailAddress |-> Trim(w[i].shareWith[w[i].k])])]
        /\ w' = [w EXCEPT ![i] =
                   IF @.k < Len(@.shareWith)
                     THEN [@ EXCEPT !.k = @ + 1]
                     ELSE shareDocument_return(@)]
  /\ UNCHANGED <<crm, sigs, Others>>

\* getShareableLink: anyone with the link may read
drive_permissions_create_anyone(i) ==
  /\ w[i].pc = "drive.permissions.create:anyone"
  /\ \/ /\ w' = [w EXCEPT ![i] =
                   method_throw(@, "getShareableLink",
                                NetworkError("drive.permissions.create:anyone"))]
        /\ UNCHANGED drive
     \/ /\ drive' = [drive EXCEPT ![FileAt(w[i].newDocId)].permissions =
                       Append(@, [type |-> "anyone", role |-> <<"reader">>,
                                  emailAddress |-> <<>>])]
        /\ w' = [w EXCEPT ![i] = Await(@, "drive.files.get")]
  /\ UNCHANGED <<crm, sigs, Others>>

\* getShareableLink: the webViewLink is read, createContract returns
drive_files_get(i) ==
  /\ w[i].pc = "drive.files.get"
  /\ \/ w' = [w EXCEPT ![i] =
                method_throw(@, "getShareableLink", NetworkError("drive.files.get"))]
     \/ w' = [w EXCEPT ![i] =
                createContract_return(@, [id |-> @.newDocId,
                                          link |-> WebViewLink(@.newDocId)])]
  /\ UNCHANGED <<crm, drive, sigs, Others>>

\* exportDocumentAsPdf
drive_files_export(i) ==
  /\ w[i].pc = "drive.files.export"
  /\ \/ w' = [w EXCEPT ![i] =
                sendContractForSignature_throw(
                  Fail(@, "exportDocumentAsPdf", NetworkError("drive.files.export")),
                  NetworkError("drive.files.export"))]
     \/ w' = [w EXCEPT ![i] = afterExport(@)]
  /\ UNCHANGED <<crm, drive, sigs, Others>>

\* createDocument: the multipart request to Autentique
autentique_post(i) ==
  /\ w[i].pc = "autentique.post"
  /\ \/ /\ \E e \in {NetworkError("autentique.post"), "Autentique API error"} :
             w' = [w EXCEPT ![i] =
                     sendContractForSignature_throw(Fail(@, "createDocument", e), e)]
        /\ UNCHANGED sigs
     \/ LET id == AutentiqueId(Len(sigs) + 1)
            request == w[i].posted[Len(w[i].posted)]
        IN  /\ sigs' = Append(sigs, [id |-> id, request |-> request])
            /\ w' = [w EXCEPT ![i] =
                       sendContractForSignature_return(@, CreatedDocument(id, request))]
  /\ UNCHANGED <<crm, drive, Others>>

\* updateLeadCustomField with the Autentique link
kommo_updateAutentiqueLink(i) ==
  /\ w[i].pc = "kommo.updateAutentiqueLink"
  /\ \/ /\ w' = [w EXCEPT ![i] =
                   onAutentiqueFieldError(@, NetworkError("kommo.updateAutentiqueLink"))]
        /\ UNCHANGED crm
     \/ /\ ~ParseInt(settings.kommo.autentiqueLinkFieldId).nan
        /\ crm' = [crm EXCEPT !.lead.custom_fields_values =
                     PatchedFields(@, settings.kommo.autentiqueLinkFieldId,
                                   Str(w[i].autentiqueDocument.primaryLink))]
        /\ w' = [w EXCEPT ![i] = linkFieldStep(@)]
  /\ UNCHANGED <<drive, sigs, Others>>

\* updateLeadCustomField with the document link
kommo_updateLink(i) ==
  /\ w[i].pc = "kommo.updateLink"
  /\ \/ /\ w' = [w EXCEPT ![i] = onLinkFieldError(@, NetworkError("kommo.updateLink"))]
        /\ UNCHANGED crm
     \/ /\ ~ParseInt(settings.kommo.linkFieldId).nan
        /\ crm' = [crm EXCEPT !.lead.custom_fields_values =
                     PatchedFields(@, settings.kommo.linkFieldId,
                                   Str(w[i].document.link))]
        /\ w' = [w EXCEPT ![i] = noteStep(@)]
  /\ UNCHANGED <<drive, sigs, Others>>

\* addNoteToLead
kommo_addNoteToLead(i) ==
  /\ w[i].pc = "kommo.addNoteToLead"
  /\ \/ /\ w' = [w EXCEPT ![i] = onNoteError(@, NetworkError("kommo.addNoteToLead"))]
        /\ UNCHANGED crm
     \/ /\ crm' = [crm EXCEPT !.notes = Append(@, noteText(w[i]))]
        /\ w' = [w EXCEPT ![i] = respondCreated(@)]
  /\ UNCHANGED <<drive, sigs, Others>>

Init ==
  /\ env \in WebhookEnvs
  /\ \E lead \in Leads : crm = [lead |-> lead, notes |-> <<>>]
  /\ drive = <<>>
  /\ sigs = <<>>
  /\ w = [i \in Slots |-> Fresh]
  /\ probe = NoProbe

Next ==
  \E i \in {1} :
    \/ webhook(i)
    \/ kommo_getLead(i)
    \/ docs_documents_get(i)
    \/ drive_files_create(i)
    \/ docs_batchUpdate_insert(i)
    \/ docs_batchUpdate_replace(i)
    \/ drive_permissions_create_user(i)
    \/ drive_permissions_create_anyone(i)
    \/ drive_files_get(i)
    \/ drive_files_export(i)
    \/ autentique_post(i)
    \/ kommo_updateAutentiqueLink(i)
    \/ kommo_updateLink(i)
    \/ kommo_addNoteToLead(i)

Spec == Init /\ [][Next]_vars

-----------------------------------------------------------------------------
(* createContract called on its own                                          *)

Placeholder(name) == Str(<<name>>)

ReplacementSets ==
  { <<>>,
    << <<Placeholder("[A]"), Str(<<"X">>)>> >>,
    << <<Placeholder("[A]"), Str(<<"X">>)>>, <<Placeholder("[B]"), Str(<<>>)>> >>,
    << <<Placeholder("[A]"), Null>>, <<Placeholder("[B]"), Undefined>> >>,
    << <<Placeholder("[A]"), Num(5)>>, <<Placeholder("[B]"), Null>> >> }

ShareLists == { SubSeq(<< <<EmailPool[1]>>, <<EmailPool[2]>>, <<EmailPool[3]>>,
                          <<EmailPool[4]>> >>, 1, n) : n \in 0..MaxShare }

\* createContract(templateId, title, replacements, folderId, shareWith, shareRole);
\* shareRole = 'reader' when the caller leaves it out
call_createContract(i) ==
  /\ w[i].pc = "idle"
  /\ \E replacements \in ReplacementSets, shareWith \in ShareLists,
        shareRole \in {Undefined, Str(<<"writer">>), Str(<<"owner">>)} :
       w' = [w EXCEPT ![i] =
               createContract(
                 [Fresh EXCEPT !.entry = "createContract",
                               !.title = <<"Contrato">>,
                               !.replacements = replacements,
                               !.shareWith = shareWith,
                               !.shareRole = IF shareRole = Undefined
                                               THEN Str(<<"reader">>) ELSE shareRole])]
  /\ UNCHANGED <<crm, drive, sigs, Others>>

InitDocs ==
  /\ env = BaseEnv
  /\ crm = [lead |-> NoLead, notes |-> <<>>]
  /\ drive = <<>>
  /\ sigs = <<>>
  /\ w = [i \in Slots |-> Fresh]
  /\ probe = NoProbe

NextDocs ==
  \E i \in {1} :
    \/ call_createContract(i)
    \/ docs_documents_get(i)
    \/ drive_files_create(i)
    \/ docs_batchUpdate_insert(i)
    \/ docs_batchUpdate_replace(i)
    \/ drive_permissions_create_user(i)
    \/ drive_permissions_create_anyone(i)
    \/ drive_files_get(i)

SpecDocs == InitDocs /\ [][NextDocs]_vars

-----------------------------------------------------------------------------
(* sendContractForSignature called on its own                                *)

SignatureEnvs ==
  { [BaseEnv EXCEPT
       !["AUTENTIQUE_API_KEY"] = Str(<<"key">>),
       !["AUTENTIQUE_SANDBOX"] = sandbox,
       !["AUTENTIQUE_COMPANY_SIGNER_NAME"] = name,
       !["AUTENTIQUE_COMPANY_SIGNER_EMAIL"] = email] :
     sandbox \in {Undefined, Str(<<"true">>), Str(<<"false">>), Str(<<"1">>)},
     name \in OnOff("Firma"),
     email \in OnOff("firma@x.com") }

\* new AutentiqueClient().sendContractForSignature(googleDocId, documentName,
\*   leadContactEmail, leadContactName)
call_sendContractForSignature(i) ==
  /\ w[i].pc = "idle"
  /\ AutentiqueClient_error(env) = ""
  /\ \E leadContactEmail \in {Undefined, Null, Str(<<>>), Str(<<"cliente@x.com">>)},
        leadContactName \in {Null, Str(<<"Maria">>)} :
       w' = [w EXCEPT ![i] =
               sendContractForSignature(
                 [Fresh EXCEPT !.entry = "sendContractForSignature",
                               !.googleDocId = DocId(1),
                               !.title = <<"Contrato">>,
                               !.leadContactEmail = leadContactEmail,
                               !.leadContactName = leadContactName])]
  /\ UNCHANGED <<crm, drive, sigs, Others>>

InitSig ==
  /\ env \in SignatureEnvs
  /\ crm = [lead |-> NoLead, notes |-> <<>>]
  /\ drive = <<NewFile(DocId(1))>>
  /\ sigs = <<>>
  /\ w = [i \in Slots |-> Fresh]
  /\ probe = NoProbe

NextSig ==
  \E i \in {1} :
    \/ call_sendContractForSignature(i)
    \/ drive_files_export(i)
    \/ autentique_post(i)

SpecSig == InitSig /\ [][NextSig]_vars

-----------------------------------------------------------------------------
(* shouldTrigger called on its own                                           *)

TriggerEnvValues ==
  {Undefined, Str(<<>>), Str(<<"0">>), Str(<<"7">>), Str(<<"9">>),
   Str(<<"7", ".", "5">>)}

EventValues ==
  {Undefined, Num(0), Num(7), Num(8), Num(9),
   Str(<<>>), Str(<<"7">>), Str(<<"0", "7">>), Str(<<"9">>), Str(<<" ", "9">>),
   Str(<<"7", ".", "5">>), Str(<<"7", ".", "0">>),
   Str(<<"7", "a">>), Str(<<"abc">>)}

probe_shouldTrigger ==
  /\ probe.op = "shouldTrigger"
  /\ ~probe.done
  /\ probe' = [probe EXCEPT
                 !.done = TRUE,
                 !.result = shouldTrigger(settings.trigger,
                                          probe.pipelineId, probe.statusId)]
  /\ UNCHANGED <<env, crm, drive, sigs, w>>

InitTrigger ==
  /\ \E pipeline \in TriggerEnvValues, status \in TriggerEnvValues :
       env = [BaseEnv EXCEPT !["KOMMO_TRIGGER_PIPELINE_ID"] = pipeline,
                             !["KOMMO_TRIGGER_STATUS_ID"] = status]
  /\ crm = [lead |-> NoLead, notes |-> <<>>]
  /\ drive = <<>>
  /\ sigs = <<>>
  /\ w = [i \in Slots |-> Fresh]
  /\ \E pipelineId \in EventValues, statusId \in EventValues :
       probe = [op |-> "shouldTrigger", pipelineId |-> pipelineId,
                statusId |-> statusId, done |-> FALSE, result |-> FALSE]

NextTrigger == probe_shouldTrigger

SpecTrigger == InitTrigger /\ [][NextTrigger]_vars

-----------------------------------------------------------------------------
(* What the claims speak of                                                  *)

Range(seq) == {seq[j] : j \in 1..Len(seq)}

Count(seq, x) == Cardinality({j \in 1..Len(seq) : seq[j] = x})

Webhooks == {i \in Slots : w[i].entry = "webhook"}

Responded(i) == w[i].pc = "responded"

\* the value the CRM holds in the lead's contract-link field
StoredLink(lead) ==
  LET items == lead.custom_fields_values.items
      hits  == {j \in 1..Len(items) :
                  /\ items[j].field_id = LinkFieldNumber
                  /\ Len(items[j].values.items) > 0}
  IN  IF hits = {} THEN Undefined
      ELSE items[CHOOSE j \in hits : TRUE].values.items[1].value

HasContractLink(lead) ==
  StoredLink(lead).t = "string" /\ StoredLink(lead).s # <<>>

Fetched(i) == w[i].lead # NoLead

DocumentCreated(i) == w[i].document # NoDocument

AuxiliaryCalls ==
  {"sendContractForSignature", "exportDocumentAsPdf", "createDocument",
   "updateLeadCustomField:autentique", "updateLeadCustomField:link",
   "addNoteToLead"}

\* the request carries a lead id and passes the trigger filter
PassesFilter(req) ==
  /\ req.method = "POST"
  /\ req.body.defined
  /\ Truthy(Or(Or(req.body.status0.id, req.body.add0.id), req.body.flat.id))
  /\ shouldTrigger(settings.trigger,
                   Or(req.body.status0.pipeline_id, req.body.flat.pipeline_id),
                   Or(req.body.status0.status_id, req.body.flat.status_id))

-----------------------------------------------------------------------------
\* C1: a lead fetched with a non-empty contract-link field ends the invocation
\* at once: getLead is the only call made, nothing is written to the CRM, no
\* document exists, and the answer is 200, success:true, with the stored link.
C1_ExistingLinkShortCircuits ==
  \A i \in Webhooks :
    HasContractLink(w[i].lead) =>
      /\ Responded(i)
      /\ w[i].log = <<"getLead">>
      /\ drive = <<>>
      /\ sigs = <<>>
      /\ crm.notes = <<>>
      /\ crm.lead = w[i].lead
      /\ w[i].res.status = 200
      /\ {"success", "existingLink"} \subseteq w[i].res.keys
      /\ w[i].res.success
      /\ w[i].res.existingLink = StoredLink(w[i].lead)
      /\ w[i].res.keys \cap {"documentId", "documentLink"} = {}

C1_Witness ==
  \E i \in Webhooks : HasContractLink(w[i].lead) /\ Responded(i)

\* C2: sendContractForSignature called without a counterparty e-mail never
\* reaches the PDF export and fails with the validation error.
C2_ValidationBeforeExport ==
  \A i \in Slots :
    (w[i].entry = "sendContractForSignature" /\ ~Truthy(w[i].leadContactEmail)) =>
      /\ "exportDocumentAsPdf" \notin Range(w[i].log)
      /\ w[i].pc = "threw"
      /\ w[i].error = "Lead contact email is required"

\* the signature would be sent for this lead under these settings
SignatureDue(i) ==
  /\ settings.autentique.enabled
  /\ Truthy(getCustomFieldValue(w[i].lead, LeadEmailFieldId))

CreatedResponse(i) ==
  /\ w[i].res.status = 200
  /\ {"success", "documentId", "documentLink"} \subseteq w[i].res.keys
  /\ w[i].res.success
  /\ w[i].res.documentId = w[i].document.id
  /\ w[i].res.documentLink = w[i].document.link

\* C3 as stated: once the document exists, every auxiliary step that the
\* settings and the lead call for is attempted whatever failed before it, and
\* the answer is 200, success:true, with the document's id and link.
C3_EveryAuxiliaryStepAttempted ==
  \A i \in Webhooks :
    (DocumentCreated(i) /\ Responded(i)) =>
      /\ CreatedResponse(i)
      /\ SignatureDue(i) => "sendContractForSignature" \in Range(w[i].log)
      /\ (SignatureDue(i) /\ Truthy(settings.kommo.autentiqueLinkFieldId))
           => "updateLeadCustomField:autentique" \in Range(w[i].log)
      /\ Truthy(settings.kommo.linkFieldId)
           => "updateLeadCustomField:link" \in Range(w[i].log)
      /\ settings.kommo.postLinkToLead => "addNoteToLead" \in Range(w[i].log)

\* C3 amended: the same, but the update of the Autentique-link field is
\* attempted only when the signature send returned a document.
C3_AuxiliaryFailuresDoNotAbort ==
  \A i \in Webhooks :
    (DocumentCreated(i) /\ Responded(i)) =>
      /\ CreatedResponse(i)
      /\ SignatureDue(i) => "sendContractForSignature" \in Range(w[i].log)
      /\ (w[i].autentiqueDocument # NoAutentique
            /\ Truthy(settings.kommo.autentiqueLinkFieldId))
           => "updateLeadCustomField:autentique" \in Range(w[i].log)
      /\ Truthy(settings.kommo.linkFieldId)
           => "updateLeadCustomField:link" \in Range(w[i].log)
      /\ settings.kommo.postLinkToLead => "addNoteToLead" \in Range(w[i].log)

C3_Witness ==
  \E i \in Webhooks :
    /\ Responded(i)
    /\ DocumentCreated(i)
    /\ {"sendContractForSignature", "updateLeadCustomField:link", "addNoteToLead"}
         \subseteq w[i].failed

\* C4: when a client cannot be built, or getLead or createContract fails, the
\* invocation ends there: the failed call is the last one made, no auxiliary
\* step runs, nothing leaves the handler as an exception, and the answer is
\* 200, success:false, with the error's message.
C4_PrimaryFailureAborts ==
  \A i \in Webhooks :
    /\ w[i].pc # "threw"
    /\ ({"getLead", "createContract"} \cap w[i].failed # {}) =>
         /\ Responded(i)
         /\ w[i].nres = 1
         /\ w[i].res.status = 200
         /\ w[i].res.keys = {"success", "error"}
         /\ ~w[i].res.success
         /\ w[i].res.error = w[i].raised
         /\ Range(w[i].log) \cap AuxiliaryCalls = {}
         /\ "getLead" \in w[i].failed => w[i].log = <<"getLead">>
         /\ "createContract" \in w[i].failed
              => w[i].log[Len(w[i].log)] \in w[i].failed
    /\ (KommoClient_error(env) # "" \/ GoogleDocsClient_error(env) # "") =>
         /\ w[i].log = <<>>
         /\ (Responded(i) /\ PassesFilter(w[i].req)) =>
              /\ w[i].res.status = 200
              /\ w[i].res.keys = {"success", "error"}
              /\ ~w[i].res.success
              /\ w[i].res.error \in {KommoClient_error(env), GoogleDocsClient_error(env)}
              /\ w[i].res.error # ""

C4_Witness ==
  \E i \in Webhooks :
    /\ Responded(i)
    /\ "createContract" \in w[i].failed
    /\ w[i].newDocId # <<>>

\* C5: the answer is 405 exactly when the method is not POST, and then no
\* backend was called; every POST is answered with 200.
C5_MethodAndStatus ==
  \A i \in Webhooks :
    /\ w[i].req.method # "POST" => (w[i].log = <<>> /\ drive = <<>>)
    /\ Responded(i) =>
         /\ (w[i].res.status = 405) <=> (w[i].req.method # "POST")
         /\ w[i].req.method = "POST" => w[i].res.status = 200

C5_Witness ==
  \E i \in Webhooks :
    Responded(i) /\ w[i].res.status = 405 /\ w[i].req.method = "GET"

\* C6: every 200 answer of the webhook carries the field `success`.
C6_SuccessInEvery200 ==
  \A i \in Webhooks :
    (Responded(i) /\ w[i].res.status = 200) => "success" \in w[i].res.keys

\* C7: an invocation that fetched a lead without a contract link and whose
\* createContract did not fail has called copyTemplate, replacePlaceholders
\* and getShareableLink once each, and answers with documentId and
\* documentLink of the one document created.
C7_OneDocumentPerInvocation ==
  \A i \in Webhooks :
    (Responded(i) /\ Fetched(i) /\ ~HasContractLink(w[i].lead)
       /\ "createContract" \notin w[i].failed) =>
      /\ Count(w[i].log, "copyTemplate") = 1
      /\ Count(w[i].log, "replacePlaceholders") = 1
      /\ Count(w[i].log, "getShareableLink") = 1
      /\ Len(drive) = 1
      /\ {"documentId", "documentLink"} \subseteq w[i].res.keys
      /\ w[i].res.documentId = drive[1].id
      /\ w[i].res.documentLink = WebViewLink(drive[1].id)

C7_Witness ==
  \E i \in Webhooks :
    /\ Responded(i)
    /\ w[i].failed = {}
    /\ w[i].req.body.status0 = Event(Num(42), Num(9), Num(7))
    /\ settings.trigger = [pipelineId |-> Str(<<"7">>), statusId |-> Str(<<"9">>)]
    /\ "documentId" \in w[i].res.keys

-----------------------------------------------------------------------------
(* createContract on its own                                                 *)

Composites == {i \in Slots : w[i].entry = "createContract"}

IsPrefix(a, b) == Len(a) <= Len(b) /\ a = SubSeq(b, 1, Len(a))

\* the calls of a createContract that runs to its end
ExpectedCalls(shareWith) ==
  <<"createContract", "copyTemplate", "replacePlaceholders">>
    \o (IF Len(shareWith) > 0 THEN <<"shareDocument">> ELSE <<>>)
    \o <<"getShareableLink">>

InDrive(id) == \E j \in 1..Len(drive) : drive[j].id = id

\* C8: when replacePlaceholders fails inside createContract, neither
\* shareDocument nor getShareableLink is called and createContract throws the
\* very error replacePlaceholders raised.
C8_ReplaceFailureStopsComposite ==
  \A i \in Composites :
    "replacePlaceholders" \in w[i].failed =>
      /\ w[i].pc = "threw"
      /\ w[i].error = w[i].raised
      /\ w[i].error = NetworkError("docs.documents.batchUpdate:replace")
      /\ Range(w[i].log) \cap {"shareDocument", "getShareableLink"} = {}

C8_Witness ==
  \E i \in Composites :
    "replacePlaceholders" \in w[i].failed /\ Len(w[i].shareWith) > 0

\* C9: createContract calls copyTemplate, replacePlaceholders, shareDocument
\* (only for a non-empty shareWith) and getShareableLink in this order, each
\* after the one before succeeded; a failed step is the last call, its error
\* is the one thrown and the document already created stays in the drive; a
\* createContract that returns has made all the calls and returns the new
\* document's id and link.
C9_StepsInOrder ==
  \A i \in Composites :
    /\ IsPrefix(w[i].log, ExpectedCalls(w[i].shareWith))
    /\ \A j \in 1..(Len(w[i].log) - 1) : w[i].log[j] \notin w[i].failed
    /\ w[i].failed # {} =>
         /\ w[i].pc = "threw"
         /\ w[i].failed = {w[i].log[Len(w[i].log)]}
         /\ w[i].error = w[i].raised
    /\ w[i].pc = "threw" => w[i].failed # {}
    /\ w[i].newDocId # <<>> => InDrive(w[i].newDocId)
    /\ w[i].pc = "returned" =>
         /\ w[i].log = ExpectedCalls(w[i].shareWith)
         /\ w[i].newDocId # <<>>
         /\ w[i].document = [id |-> w[i].newDocId,
                             link |-> WebViewLink(w[i].newDocId)]

C9_Witness ==
  \E i \in Composites :
    /\ w[i].pc = "returned"
    /\ Len(w[i].shareWith) = 2
    /\ "shareDocument" \in Range(w[i].log)

-----------------------------------------------------------------------------
(* shouldTrigger on its own                                                  *)

AllDigits(s) == \A j \in 1..Len(s) : IsDigit(s[j])

RECURSIVE DropTrailingZeros(_)
DropTrailingZeros(s) ==
  IF s # <<>> /\ s[Len(s)] = "0"
    THEN DropTrailingZeros(SubSeq(s, 1, Len(s) - 1)) ELSE s

NotNumeric == [num |-> FALSE, neg |-> FALSE, int |-> 0, frac |-> <<>>]

\* the number a value denotes: a number itself, or a string holding a decimal
\* numeral, blanks around it aside; nothing else denotes a number
NumericValue(v) ==
  IF v.t = "number"
    THEN [num |-> TRUE, neg |-> v.n < 0,
          int |-> IF v.n < 0 THEN -v.n ELSE v.n, frac |-> <<>>]
  ELSE IF v.t # "string" THEN NotNumeric
  ELSE LET t     == Trim(v.s)
           neg   == t # <<>> /\ Head(t) = "-"
           body  == IF t # <<>> /\ Head(t) \in {"-", "+"} THEN Tail(t) ELSE t
           dots  == {j \in 1..Len(body) : body[j] = "."}
           dot   == IF dots = {} THEN Len(body) + 1
                    ELSE CHOOSE j \in dots : \A k \in dots : j <= k
           whole == SubSeq(body, 1, dot - 1)
           frac  == DropTrailingZeros(SubSeq(body, dot + 1, Len(body)))
           zero  == DigitPrefix(whole, 0) = 0 /\ frac = <<>>
       IN  IF whole # <<>> /\ AllDigits(whole) /\ AllDigits(frac)
             THEN [num |-> TRUE, neg |-> neg /\ ~zero,
                   int |-> DigitPrefix(whole, 0), frac |-> frac]
             ELSE NotNumeric

NumericallyEqual(a, b) ==
  NumericValue(a).num /\ NumericValue(b).num /\ NumericValue(a) = NumericValue(b)

IsInteger(v) == NumericValue(v).num /\ NumericValue(v).frac = <<>>

\* parseInt reads the same integer from both values
SameParsedInteger(a, b) == ~NumNotSame(ParseInt(a), ParseInt(b))

Probed == probe.op = "shouldTrigger" /\ probe.done

\* C10 as stated: shouldTrigger is true exactly when every configured field
\* is numerically equal to the event's value, for events whose values are
\* numbers, numeric strings or missing.
C10_TrueIffNumericallyEqual ==
  (Probed /\ \A v \in {probe.pipelineId, probe.statusId} :
               v = Undefined \/ NumericValue(v).num) =>
    (probe.result <=>
       /\ Truthy(settings.trigger.pipelineId)
            => NumericallyEqual(settings.trigger.pipelineId, probe.pipelineId)
       /\ Truthy(settings.trigger.statusId)
            => NumericallyEqual(settings.trigger.statusId, probe.statusId))

\* C10 amended: shouldTrigger is true exactly when, for every configured
\* field, parseInt reads the same integer from the configured and the event
\* value; for integers and integer strings that is numerical equality. It is
\* true for any input when both fields are unset, and false when a pipeline
\* id is configured and the event's pipeline id is missing.
C10_TrueIffSameParsedInteger ==
  Probed =>
    /\ probe.result <=>
         /\ Truthy(settings.trigger.pipelineId)
              => SameParsedInteger(settings.trigger.pipelineId, probe.pipelineId)
         /\ Truthy(settings.trigger.statusId)
              => SameParsedInteger(settings.trigger.statusId, probe.statusId)
    /\ (/\ \A v \in {probe.pipelineId, probe.statusId} :
              v = Undefined \/ IsInteger(v)
        /\ \A c \in {settings.trigger.pipelineId, settings.trigger.statusId} :
              Truthy(c) => IsInteger(c)) =>
         (probe.result <=>
            /\ Truthy(settings.trigger.pipelineId)
                 => NumericallyEqual(settings.trigger.pipelineId, probe.pipelineId)
            /\ Truthy(settings.trigger.statusId)
                 => NumericallyEqual(settings.trigger.statusId, probe.statusId))
    /\ (~Truthy(settings.trigger.pipelineId) /\ ~Truthy(settings.trigger.statusId))
         => probe.result
    /\ (Truthy(settings.trigger.pipelineId) /\ probe.pipelineId = Undefined)
         => ~probe.result

C10_Witness ==
  /\ Probed
  /\ probe.result
  /\ settings.trigger = [pipelineId |-> Str(<<"7">>), statusId |-> Str(<<"9">>)]
  /\ probe.pipelineId = Str(<<"0", "7">>)
  /\ probe.statusId = Num(9)

-----------------------------------------------------------------------------
(* The early exits of the webhook                                            *)

\* the event's value of a field, as the payload gives it
EventValue(body, f) ==
  IF Truthy(body.status0[f]) THEN body.status0[f] ELSE body.flat[f]

HasLeadId(body) == \E e \in {body.status0, body.add0, body.flat} : Truthy(e.id)

\* the request names a lead and some configured field differs from the event's
TriggerMismatch(i) ==
  /\ w[i].req.method = "POST"
  /\ w[i].req.body.defined
  /\ HasLeadId(w[i].req.body)
  /\ \/ /\ Truthy(settings.trigger.pipelineId)
        /\ ~NumericallyEqual(settings.trigger.pipelineId,
                             EventValue(w[i].req.body, "pipeline_id"))
     \/ /\ Truthy(settings.trigger.statusId)
        /\ ~NumericallyEqual(settings.trigger.statusId,
                             EventValue(w[i].req.body, "status_id"))

NothingDone(i) ==
  /\ w[i].log = <<>>
  /\ drive = <<>>
  /\ sigs = <<>>
  /\ crm.notes = <<>>
  /\ crm.lead \in Leads

\* C11: an event that does not match the trigger filter is answered at once
\* with a 200 that carries no error, and nothing is called: no getLead, no
\* document call, no signature call, no CRM write.
C11_NoActionOnTriggerMismatch ==
  \A i \in Webhooks :
    TriggerMismatch(i) =>
      /\ Responded(i)
      /\ w[i].nres = 1
      /\ NothingDone(i)
      /\ w[i].res.status = 200
      /\ "error" \notin w[i].res.keys
      /\ w[i].res.message = "Trigger conditions not met"

C11_Witness ==
  \E i \in Webhooks :
    /\ TriggerMismatch(i)
    /\ Responded(i)
    /\ w[i].req.body.status0 = Event(Num(42), Num(9), Num(8))

\* C12: a POST from whose body no lead id can be extracted is answered 200
\* with an informational message and no error, and nothing is called.
C12_NoLeadIdIsInformational ==
  \A i \in Webhooks :
    (w[i].req.method = "POST"
       /\ ~(w[i].req.body.defined /\ HasLeadId(w[i].req.body))) =>
      /\ Responded(i)
      /\ NothingDone(i)
      /\ w[i].res.status = 200
      /\ "message" \in w[i].res.keys
      /\ "error" \notin w[i].res.keys

-----------------------------------------------------------------------------
(* The extraction of the event on its own                                    *)

NestedEvents ==
  {NoEvent,
   Event(Num(42), Num(9), Num(7)),
   Event(Num(42), Undefined, Num(7)),
   Event(Num(42), Num(9), Undefined),
   Event(Undefined, Num(9), Num(7)),
   Event(Num(42), Undefined, Undefined)}

AddEvents == {NoEvent, Event(Num(43), Undefined, Undefined)}

FlatEvents ==
  {NoEvent,
   Event(Str(<<"4", "4">>), Str(<<"1", "0">>), Str(<<"8">>)),
   Event(Str(<<"4", "4">>), Undefined, Undefined),
   Event(Undefined, Str(<<"1", "0">>), Str(<<"8">>)),
   Event(Str(<<"4", "4">>), Str(<<"1", "0">>), Undefined)}

\* webhook.js lines 28-39 applied to a body
probe_parse ==
  /\ probe.op = "parse"
  /\ ~probe.done
  /\ probe' = [probe EXCEPT !.done = TRUE,
                            !.leadId = leadId(probe.body),
                            !.newStatusId = newStatusId(probe.body),
                            !.newPipelineId = newPipelineId(probe.body)]
  /\ UNCHANGED <<env, crm, drive, sigs, w>>

InitParse ==
  /\ env = BaseEnv
  /\ crm = [lead |-> NoLead, notes |-> <<>>]
  /\ drive = <<>>
  /\ sigs = <<>>
  /\ w = [i \in Slots |-> Fresh]
  /\ \E status0 \in NestedEvents, add0 \in AddEvents, flat \in FlatEvents :
       probe = [op |-> "parse", body |-> Body(status0, add0, flat), done |-> FALSE,
                leadId |-> Undefined, newStatusId |-> Undefined,
                newPipelineId |-> Undefined]

NextParse == probe_parse

SpecParse == InitParse /\ [][NextParse]_vars

Parsed == probe.op = "parse" /\ probe.done

Extracted == Event(probe.leadId, probe.newStatusId, probe.newPipelineId)

\* C13 as stated: the three values come from the nested shape when it is the
\* only one present, from the flat keys when they are the only ones present,
\* and all three from the nested shape when both are present.
C13_AllFromNestedShape ==
  (Parsed /\ probe.body.add0 = NoEvent) =>
    /\ (probe.body.status0 # NoEvent /\ probe.body.flat = NoEvent)
         => Extracted = probe.body.status0
    /\ (probe.body.status0 = NoEvent /\ probe.body.flat # NoEvent)
         => Extracted = probe.body.flat
    /\ (probe.body.status0 # NoEvent /\ probe.body.flat # NoEvent)
         => Extracted = probe.body.status0

\* C13 amended: each value is taken by itself, from the nested shape when the
\* nested shape holds a truthy value for it and from the flat key otherwise
\* (the lead id trying leads.add[0].id in between); so all three come from the
\* nested shape when it holds all three, and from the flat keys when there is
\* no nested shape.
C13_EachValueNestedFirst ==
  Parsed =>
    /\ probe.leadId =
         IF Truthy(probe.body.status0.id) THEN probe.body.status0.id
         ELSE IF Truthy(probe.body.add0.id) THEN probe.body.add0.id
         ELSE probe.body.flat.id
    /\ probe.newStatusId = EventValue(probe.body, "status_id")
    /\ probe.newPipelineId = EventValue(probe.body, "pipeline_id")
    /\ (\A f \in {"id", "status_id", "pipeline_id"} : Truthy(probe.body.status0[f]))
         => Extracted = probe.body.status0
    /\ (probe.body.status0 = NoEvent /\ probe.body.add0 = NoEvent)
         => Extracted = probe.body.flat

C13_Witness ==
  /\ Parsed
  /\ probe.body.status0 = Event(Num(42), Num(9), Num(7))
  /\ probe.body.flat = Event(Str(<<"4", "4">>), Str(<<"1", "0">>), Str(<<"8">>))
  /\ Extracted = Event(Num(42), Num(9), Num(7))

-----------------------------------------------------------------------------
(* getCustomFieldValue on its own                                            *)

ProbedFieldNumber == 3333
OtherFieldNumber == 5555

FieldValueEntries ==
  { ValueEntry(v, code, label) :
      v \in {Undefined, Null, Str(<<>>), Str(<<"X">>), Num(0)},
      code \in {Undefined, Str(<<>>), Str(<<"code">>)},
      label \in {Undefined, Str(<<"Label">>)} }

FieldValueLists ==
  {NoList, ListOf(<<>>), ListOf(<<NullEntry>>)}
    \cup { ListOf(<<e>>) : e \in FieldValueEntries }
    \cup { ListOf(<<e, ValueEntry(Str(<<"second">>), Undefined, Undefined)>>) :
             e \in FieldValueEntries }

Entities ==
  { [name |-> Str(<<"Lead 42">>), custom_fields_values |-> cfv] :
      cfv \in {NoList, ListOf(<<>>)}
                \cup { ListOf(<<FieldEntry(ProbedFieldNumber, vals)>>) :
                         vals \in FieldValueLists }
                \cup { ListOf(<<TextField(OtherFieldNumber, Str(<<"Rua 1">>)),
                                FieldEntry(ProbedFieldNumber, vals)>>) :
                         vals \in FieldValueLists } }

FieldIds == {Str(<<"3", "3", "3", "3">>), Str(<<"4", "4", "4", "4", "4">>)}

\* kommo.getCustomFieldValue(entity, fieldId)
probe_getCustomFieldValue ==
  /\ probe.op = "getCustomFieldValue"
  /\ ~probe.done
  /\ probe' = [probe EXCEPT
                 !.done = TRUE,
                 !.threw = getCustomFieldValue_throws(probe.entity, probe.fieldId),
                 !.result = IF getCustomFieldValue_throws(probe.entity, probe.fieldId)
                              THEN Undefined
                              ELSE getCustomFieldValue(probe.entity, probe.fieldId)]
  /\ UNCHANGED <<env, crm, drive, sigs, w>>

InitField ==
  /\ env = BaseEnv
  /\ crm = [lead |-> NoLead, notes |-> <<>>]
  /\ drive = <<>>
  /\ sigs = <<>>
  /\ w = [i \in Slots |-> Fresh]
  /\ \E entity \in Entities, fieldId \in FieldIds :
       probe = [op |-> "getCustomFieldValue", entity |-> entity, fieldId |-> fieldId,
                done |-> FALSE, threw |-> FALSE, result |-> Undefined]

NextField == probe_getCustomFieldValue

SpecField == InitField /\ [][NextField]_vars

Resolved == probe.op = "getCustomFieldValue" /\ probe.done

\* the fields of the probed entity that carry the probed id
ProbedFields ==
  {j \in 1..Len(probe.entity.custom_fields_values.items) :
     probe.entity.custom_fields_values.items[j].field_id
       = NumericValue(probe.fieldId).int}

ProbedValues ==
  probe.entity.custom_fields_values.items[CHOOSE j \in ProbedFields : TRUE].values

\* no collection, an empty one, no such field, or a field without values
NothingToResolve ==
  \/ ~probe.entity.custom_fields_values.list
  \/ probe.entity.custom_fields_values.items = <<>>
  \/ ProbedFields = {}
  \/ ~ProbedValues.list
  \/ ProbedValues.items = <<>>

\* C14: getCustomFieldValue returns null and raises nothing when the entity
\* has no custom-field collection, when the collection is empty, when the
\* field id is not in it, and when the field's values are missing or empty.
C14_AbsenceNeverRaises ==
  (Resolved /\ NothingToResolve) => (~probe.threw /\ probe.result = Null)

C14_Witness ==
  /\ Resolved
  /\ ProbedFields # {}
  /\ ProbedValues = ListOf(<<>>)
  /\ probe.result = Null

FirstEntry == ProbedValues.items[1]

\* the entry carries the property with a value
Present(v) == v.t \notin {"undefined", "null"}

\* C15 as stated: the result is the first of plain value, enumeration code
\* and enumeration label that is present on the first value entry, and null
\* only when none of them is.
C15_FirstPresentOfThree ==
  (Resolved /\ ~NothingToResolve /\ FirstEntry.object) =>
    probe.result =
      IF Present(FirstEntry.value) THEN FirstEntry.value
      ELSE IF Present(FirstEntry.enum_code) THEN FirstEntry.enum_code
      ELSE IF Present(FirstEntry.enum) THEN FirstEntry.enum
      ELSE Null

\* C15 amended: the plain value is returned whenever the first entry defines
\* it (be it null or empty); otherwise the enumeration code if it is truthy;
\* otherwise the enumeration label if it is truthy; otherwise null. For an
\* entry whose three properties are each either missing or truthy this is the
\* first of the three that is present.
C15_DefinedValueThenTruthyCodeThenLabel ==
  (Resolved /\ ~NothingToResolve /\ FirstEntry.object) =>
    /\ ~probe.threw
    /\ probe.result =
         IF FirstEntry.value.t # "undefined" THEN FirstEntry.value
         ELSE IF Truthy(FirstEntry.enum_code) THEN FirstEntry.enum_code
         ELSE IF Truthy(FirstEntry.enum) THEN FirstEntry.enum
         ELSE Null
    /\ (\A v \in {FirstEntry.value, FirstEntry.enum_code, FirstEntry.enum} :
          v = Undefined \/ Truthy(v)) =>
         probe.result =
           IF Present(FirstEntry.value) THEN FirstEntry.value
           ELSE IF Present(FirstEntry.enum_code) THEN FirstEntry.enum_code
           ELSE IF Present(FirstEntry.enum) THEN FirstEntry.enum
           ELSE Null

C15_Witness ==
  /\ Resolved
  /\ ~NothingToResolve
  /\ FirstEntry = ValueEntry(Str(<<"X">>), Str(<<"code">>), Str(<<"Label">>))
  /\ probe.result = Str(<<"X">>)

-----------------------------------------------------------------------------
(* The replacement set on its own                                            *)

\* the mapping of the specification's example
ExampleMapping ==
  << <<Str(<<"1">>), <<"[A]">> >>, <<Str(<<"2">>), <<"[B]">> >> >>

Mappings == {fieldMapping, ExampleMapping}

\* what a field of the lead may hold (Undefined: the lead has no such field)
MappedFieldValues ==
  {Undefined, Null, Str(<<>>), Str(<<"X">>), Num(0), Num(5)}

\* a lead holding `a` and `b` in the fields of the first two mapping entries
MappedLead(mapping, a, b) ==
  LET fields ==
        (IF a = Undefined THEN <<>>
         ELSE <<TextField(ParseInt(mapping[1][1]).n, a)>>)
        \o (IF b = Undefined THEN <<>>
            ELSE <<TextField(ParseInt(mapping[2][1]).n, b)>>)
  IN  [name |-> Str(<<"Lead 42">>),
       custom_fields_values |-> IF fields = <<>> THEN NoList ELSE ListOf(fields)]

\* webhook.js lines 82-88 applied to a mapping and a lead
probe_buildReplacements ==
  /\ probe.op = "buildReplacements"
  /\ ~probe.done
  /\ probe' = [probe EXCEPT
                 !.done = TRUE,
                 !.result = buildReplacements(ObjectEntries(probe.mapping),
                                              probe.lead, <<>>)]
  /\ UNCHANGED <<env, crm, drive, sigs, w>>

InitReplacements ==
  /\ env = BaseEnv
  /\ crm = [lead |-> NoLead, notes |-> <<>>]
  /\ drive = <<>>
  /\ sigs = <<>>
  /\ w = [i \in Slots |-> Fresh]
  /\ \E mapping \in Mappings, a \in MappedFieldValues, b \in MappedFieldValues :
       probe = [op |-> "buildReplacements", mapping |-> mapping,
                lead |-> MappedLead(mapping, a, b), done |-> FALSE, result |-> <<>>]

NextReplacements == probe_buildReplacements

SpecReplacements == InitReplacements /\ [][NextReplacements]_vars

Built == probe.op = "buildReplacements" /\ probe.done

\* the entries of the replacement set under the placeholder `token`
EntriesFor(token) ==
  {j \in 1..Len(probe.result) : probe.result[j][1] = Str(token)}

\* the value the claim gives the placeholder of a mapping entry
ClaimedValue(entry) ==
  LET resolved == getCustomFieldValue(probe.lead, entry[1])
  IN  IF resolved \in {Null, Undefined} THEN Str(<<>>) ELSE resolved

\* C16: the replacement set has exactly one entry per mapping entry, under
\* the entry's placeholder, holding the lead's resolved value for the field
\* or the empty string when there is none; no value is null or undefined.
C16_OneEntryPerMappingEntry ==
  Built =>
    /\ Len(probe.result) = Len(probe.mapping)
    /\ \A m \in 1..Len(probe.mapping) :
         /\ Cardinality(EntriesFor(probe.mapping[m][2])) = 1
         /\ \A j \in EntriesFor(probe.mapping[m][2]) :
              probe.result[j][2] = ClaimedValue(probe.mapping[m])
    /\ \A j \in 1..Len(probe.result) : probe.result[j][2] \notin {Null, Undefined}

-----------------------------------------------------------------------------
(* replacePlaceholders on its own                                            *)

ReplacementKeys ==
  { <<Placeholder("[A]")>>,
    <<Placeholder("[A]"), Placeholder("[B]")>>,
    <<Placeholder("[B]"), Placeholder("[A]")>>,
    <<Str(<<"2">>), Str(<<"1">>)>>,
    <<Placeholder("[A]"), Str(<<"1">>)>> }

ReplacementValues == {Undefined, Null, Str(<<>>), Str(<<"X">>), Num(5)}

\* the objects { key: value, ... } over these keys, in the order of insertion
ReplacementObjects ==
  {<<>>}
    \cup { [k \in 1..Len(keys) |-> <<keys[k], vals[k]>>] :
             keys \in {ks \in ReplacementKeys : Len(ks) = 1},
             vals \in [1..1 -> ReplacementValues] }
    \cup { [k \in 1..Len(keys) |-> <<keys[k], vals[k]>>] :
             keys \in {ks \in ReplacementKeys : Len(ks) = 2},
             vals \in [1..2 -> ReplacementValues] }

\* replacePlaceholders(documentId, replacements) on an existing document
call_replacePlaceholders(i) ==
  /\ w[i].pc = "idle"
  /\ \E replacements \in ReplacementObjects :
       w' = [w EXCEPT ![i] =
               replacePlaceholders(
                 [Fresh EXCEPT !.entry = "replacePlaceholders",
                               !.newDocId = DocId(1),
                               !.replacements = replacements])]
  /\ UNCHANGED <<crm, drive, sigs, Others>>

InitReplace ==
  /\ env = BaseEnv
  /\ crm = [lead |-> NoLead, notes |-> <<>>]
  /\ drive = <<NewFile(DocId(1))>>
  /\ sigs = <<>>
  /\ w = [i \in Slots |-> Fresh]
  /\ probe = NoProbe

NextReplace ==
  \E i \in {1} :
    \/ call_replacePlaceholders(i)
    \/ docs_batchUpdate_replace(i)

SpecReplace == InitReplace /\ [][NextReplace]_vars

Replacers == {i \in Slots : w[i].entry = "replacePlaceholders"}

\* the replace-all request of an entry; an absent value replaces by ''
RequestFor(entry) ==
  [text        |-> entry[1].s,
   matchCase   |-> TRUE,
   replaceText |-> IF entry[2] \in {Null, Undefined} THEN <<>> ELSE JsString(entry[2])]

HasValue(entry) == entry[2] \notin {Null, Undefined}

\* C17 as stated: a replacePlaceholders that returns has sent exactly one
\* batched update, holding one case-sensitive request per entry of the
\* replacement set in insertion order, the entries without a value included.
C17_OneBatchWithEveryEntry ==
  \A i \in Replacers :
    w[i].pc = "returned" =>
      drive[1].batches =
        << [k \in 1..Len(w[i].replacements) |-> RequestFor(w[i].replacements[k])] >>

\* C17 amended: replacePlaceholders sends at most one batched update per
\* call: none when no entry has a value other than null or undefined, and
\* otherwise one holding a case-sensitive replace-all request for every such
\* entry, the empty string included, in the order of Object.entries (the
\* order of insertion for keys that are not integers); entries whose value is
\* null or undefined are skipped.
C17_OneBatchOfEntriesWithValue ==
  \A i \in Replacers :
    LET entries == ObjectEntries(w[i].replacements)
        kept    == SelectSeq(entries, HasValue)
    IN  /\ Len(drive[1].batches) <= 1
        /\ Count(w[i].log, "replacePlaceholders") = 1
        /\ w[i].pc = "threw" => drive[1].batches = <<>>
        /\ w[i].pc = "returned" =>
             /\ drive[1].batches =
                  IF kept = <<>> THEN <<>>
                  ELSE << [k \in 1..Len(kept) |-> RequestFor(kept[k])] >>
             /\ (\A k \in 1..Len(entries) : ~IsIndexKey(entries[k][1]))
                  => entries = w[i].replacements

C17_Witness ==
  \E i \in Replacers :
    /\ w[i].pc = "returned"
    /\ w[i].replacements = << <<Placeholder("[A]"), Str(<<"X">>)>>,
                              <<Placeholder("[B]"), Str(<<>>)>> >>
    /\ Len(drive[1].batches) = 1
    /\ Len(drive[1].batches[1]) = 2

-----------------------------------------------------------------------------
(* shareDocument alone                                                       *)

\* the lists of at most MaxShare different addresses of the pool, and one
\* whose address is padded with blanks
ShareEmailLists ==
  { list \in UNION { [1..n -> {<<EmailPool[j]>> : j \in 1..Len(EmailPool)}] :
                       n \in 0..MaxShare } :
      \A j, k \in 1..Len(list) : j # k => list[j] # list[k] }
    \cup { << <<" ", EmailPool[1], " ">> >> }

\* the roles a caller passes; Undefined: the argument is left out
ShareRoles ==
  {Undefined, Null, Str(<<"reader">>), Str(<<"writer">>), Str(<<"commenter">>),
   Str(<<"owner">>), Str(<<"Reader">>), Str(<<>>)}

\* shareDocument(fileId, emails, role = 'reader') on an existing document
call_shareDocument(i) ==
  /\ w[i].pc = "idle"
  /\ \E emails \in ShareEmailLists, role \in ShareRoles :
       w' = [w EXCEPT ![i] =
               shareDocument(
                 [Fresh EXCEPT !.entry = "shareDocument",
                               !.newDocId = DocId(1),
                               !.shareWith = emails,
                               !.shareRole = IF role = Undefined
                                               THEN Str(<<"reader">>) ELSE role])]
  /\ UNCHANGED <<crm, drive, sigs, Others>>

InitShare ==
  /\ env = BaseEnv
  /\ crm = [lead |-> NoLead, notes |-> <<>>]
  /\ drive = <<NewFile(DocId(1))>>
  /\ sigs = <<>>
  /\ w = [i \in Slots |-> Fresh]
  /\ probe = NoProbe

NextShare ==
  \E i \in {1} :
    \/ call_shareDocument(i)
    \/ drive_permissions_create_user(i)

SpecShare == InitShare /\ [][NextShare]_vars

Sharers == {i \in Slots : w[i].entry = "shareDocument"}

RoleNames == {<<"reader">>, <<"writer">>, <<"commenter">>}

HasValidRole(i) == w[i].shareRole.t = "string" /\ w[i].shareRole.s \in RoleNames

\* the grant of the role of invocation i to the k-th address of its list
GrantOf(i, k) ==
  [type |-> "user", role |-> w[i].shareRole.s,
   emailAddress |-> Trim(w[i].shareWith[k])]

\* C18: shareDocument with a role other than reader, writer and commenter
\* fails with the validation error and sends no permission grant, whatever
\* the list of addresses, the empty one included; with one of the three roles
\* the grants sent are that role for the addresses of the list in its order,
\* all of them once the call has returned.
C18_RoleValidatedBeforeAnyGrant ==
  \A i \in Sharers :
    LET granted == drive[1].permissions
    IN  /\ ~HasValidRole(i) =>
             /\ w[i].pc = "threw"
             /\ w[i].error = "Invalid role"
             /\ granted = <<>>
        /\ HasValidRole(i) =>
             /\ w[i].error # "Invalid role"
             /\ Len(granted) <= Len(w[i].shareWith)
             /\ granted = [k \in 1..Len(granted) |-> GrantOf(i, k)]
             /\ w[i].pc = "returned" => Len(granted) = Len(w[i].shareWith)

\* a role outside the three has failed on a list of two addresses, none of
\* which was granted anything
C18_Witness ==
  \E i \in Sharers :
    /\ w[i].shareRole = Str(<<"owner">>)
    /\ w[i].shareWith = << <<EmailPool[2]>>, <<EmailPool[1]>> >>
    /\ w[i].pc = "threw"
    /\ "shareDocument" \in w[i].failed
    /\ drive[1].permissions = <<>>

-----------------------------------------------------------------------------
(* The submissions to the signature backend                                  *)

\* the requests invocation i has handed to axios.post
Submissions(i) == w[i].posted

\* every document the backend holds was submitted by an invocation
Submitted ==
  \A j \in 1..Len(sigs) :
    \E i \in Slots : sigs[j].request \in Range(Submissions(i))

Sign == Str(<<"SIGN">>)

\* C19: a call of sendContractForSignature submits at most once, exactly once
\* when it returns; every submission carries two signers, the first with the
\* e-mail of AUTENTIQUE_COMPANY_SIGNER_EMAIL, the second with the e-mail of
\* the lead passed to the call, both with the action SIGN.
C19_TwoSignersCompanyFirst ==
  /\ Submitted
  /\ \A i \in Slots :
       /\ Len(Submissions(i)) <= 1
       /\ Count(w[i].log, "createDocument") = Len(Submissions(i))
       /\ (w[i].entry = "sendContractForSignature" /\ w[i].pc = "returned")
            => Len(Submissions(i)) = 1
       /\ \A k \in 1..Len(Submissions(i)) :
            LET signers == Submissions(i)[k].variables.signers
            IN  /\ Len(signers) = 2
                /\ Truthy(env["AUTENTIQUE_COMPANY_SIGNER_EMAIL"])
                /\ signers[1].email = env["AUTENTIQUE_COMPANY_SIGNER_EMAIL"]
                /\ Truthy(w[i].leadContactEmail)
                /\ signers[2].email = w[i].leadContactEmail
                /\ signers[1].action = Sign
                /\ signers[2].action = Sign

C19_Witness ==
  \E i \in Slots :
    /\ w[i].entry = "sendContractForSignature"
    /\ w[i].pc = "returned"
    /\ Len(sigs) = 1
    /\ sigs[1].request.variables.signers[1].email = Str(<<"firma@x.com">>)
    /\ sigs[1].request.variables.signers[2].email = Str(<<"cliente@x.com">>)

\* C20: the variables of every request submitted to the signature backend
\* hold a boolean `sandbox`, which is the AUTENTIQUE_SANDBOX setting: true
\* exactly when the variable of the environment is the string 'true'.
C20_SandboxFlagForwarded ==
  /\ \A j \in 1..Len(sigs) :
       /\ sigs[j].request.variables.sandbox \in BOOLEAN
       /\ sigs[j].request.variables.sandbox = settings.autentique.sandbox
  /\ \A i \in Slots : \A k \in 1..Len(Submissions(i)) :
       LET sandbox == Submissions(i)[k].variables.sandbox
       IN  /\ sandbox \in BOOLEAN
           /\ sandbox = settings.autentique.sandbox
           /\ sandbox <=> (/\ env["AUTENTIQUE_SANDBOX"].t = "string"
                           /\ env["AUTENTIQUE_SANDBOX"].s = <<"true">>)

\* a document submitted with the sandbox on
C20_Witness ==
  /\ env["AUTENTIQUE_SANDBOX"] = Str(<<"true">>)
  /\ Len(sigs) = 1
  /\ sigs[1].request.variables.sandbox

-----------------------------------------------------------------------------
(* The company signer                                                        *)

SignatureCalls == {i \in Slots : w[i].entry = "sendContractForSignature"}

CompanySignerUnset == ~Truthy(env["AUTENTIQUE_COMPANY_SIGNER_EMAIL"])

CompanySignerError ==
  "AUTENTIQUE_COMPANY_SIGNER_EMAIL must be set in environment variables"

-----------------------------------------------------------------------------
(* The list-fields endpoint                                                  *)

\* req.query.lead_id: absent, empty or the id of the lead
ListRequests ==
  { [method |-> method, lead_id |-> lead_id] :
      method \in {"GET", "POST"},
      lead_id \in {Undefined, Str(<<>>), Str(<<"4", "2">>)} }

ListEnvs == {BaseEnv, [BaseEnv EXCEPT !["KOMMO_ACCESS_TOKEN"] = Undefined]}

\* GET /api/list-fields arrives
list_fields(i) ==
  /\ w[i].pc = "idle"
  /\ \E req \in ListRequests :
       w' = [w EXCEPT ![i] =
               listFields([Fresh EXCEPT !.entry = "listFields",
                                        !.req.method = req.method,
                                        !.query.lead_id = req.lead_id])]
  /\ UNCHANGED <<crm, drive, sigs, Others>>

\* kommo.js getCustomFields: GET /leads/custom_fields
kommo_getCustomFields(i) ==
  /\ w[i].pc = "kommo.getCustomFields"
  /\ \/ \E data \in ErrorData :
          w' = [w EXCEPT ![i] =
                  listFields_catch(
                    Fail(@, "getCustomFields", NetworkError("kommo.getCustomFields")),
                    NetworkError("kommo.getCustomFields"), data)]
     \/ w' = [w EXCEPT ![i] = listFields_respond(@)]
  /\ UNCHANGED <<crm, drive, sigs, Others>>

InitList ==
  /\ env \in ListEnvs
  /\ \E lead \in Entities : crm = [lead |-> lead, notes |-> <<>>]
  /\ drive = <<>>
  /\ sigs = <<>>
  /\ w = [i \in Slots |-> Fresh]
  /\ probe = NoProbe

NextList ==
  \E i \in {1} :
    \/ list_fields(i)
    \/ kommo_getLead(i)
    \/ kommo_getCustomFields(i)

SpecList == InitList /\ [][NextList]_vars

Listers == {i \in Slots : w[i].entry = "listFields"}

CrmWrites ==
  {"updateLeadCustomField:autentique", "updateLeadCustomField:link", "addNoteToLead"}

\* C22: the list-fields endpoint answers a GET without lead_id with 400 and
\* calls no backend; when getLead or getCustomFields fails it answers 500
\* with exactly the fields error and details; and on no path does it write to
\* the CRM: the only calls are getLead and getCustomFields, the lead is as it
\* was fetched and no note exists.
C22_ReadOnlyErrorsByStatus ==
  \A i \in Listers :
    /\ (w[i].req.method = "GET" /\ ~Truthy(w[i].query.lead_id)) =>
         /\ Responded(i)
         /\ w[i].res.status = 400
         /\ w[i].log = <<>>
    /\ ({"getLead", "getCustomFields"} \cap w[i].failed # {}) =>
         /\ Responded(i)
         /\ w[i].res.status = 500
         /\ w[i].res.keys = {"error", "details"}
         /\ w[i].res.error = w[i].raised
    /\ Range(w[i].log) \subseteq {"getLead", "getCustomFields"}
    /\ Range(w[i].log) \cap CrmWrites = {}
    /\ crm.notes = <<>>
    /\ crm.lead \in Entities
    /\ Fetched(i) => crm.lead = w[i].lead

C22_Witness ==
  \E i \in Listers :
    /\ Responded(i)
    /\ "getCustomFields" \in w[i].failed
    /\ w[i].res.status = 500
    /\ w[i].res.details = Str(<<"Not found">>)

\* C30: every entry of customFieldsInLead in a 200 answer of the list-fields
\* endpoint carries as `value` what getCustomFieldValue returns for the
\* fetched lead and the id of the entry.
C30_ListedValueIsResolvedValue ==
  \A i \in Listers :
    (Responded(i) /\ w[i].res.status = 200) =>
      \A j \in 1..Len(w[i].res.customFieldsInLead) :
        LET entry   == w[i].res.customFieldsInLead[j]
            fieldId == Str(NatToString(entry.id))
        IN  /\ ~getCustomFieldValue_throws(w[i].lead, fieldId)
            /\ entry.value = getCustomFieldValue(w[i].lead, fieldId)

-----------------------------------------------------------------------------
(* The order of the steps of the webhook                                     *)

\* the calls of the handler and of the two clients it drives, in the order
\* of the source
StepOrder ==
  <<"getLead", "createContract", "copyTemplate", "replacePlaceholders",
    "shareDocument", "getShareableLink", "sendContractForSignature",
    "exportDocumentAsPdf", "createDocument", "updateLeadCustomField:autentique",
    "updateLeadCustomField:link", "addNoteToLead">>

Rank(op) == CHOOSE k \in 1..Len(StepOrder) : StepOrder[k] = op

\* the call that awaits the answer `pc` waits for
CallOf(pc) ==
  CASE pc = "kommo.getLead" -> "getLead"
    [] pc \in {"docs.documents.get", "drive.files.create",
               "docs.documents.batchUpdate:insert"} -> "copyTemplate"
    [] pc = "docs.documents.batchUpdate:replace" -> "replacePlaceholders"
    [] pc = "drive.permissions.create:user" -> "shareDocument"
    [] pc \in {"drive.permissions.create:anyone", "drive.files.get"}
         -> "getShareableLink"
    [] pc = "drive.files.export" -> "exportDocumentAsPdf"
    [] pc = "autentique.post" -> "createDocument"
    [] pc = "kommo.updateAutentiqueLink" -> "updateLeadCustomField:autentique"
    [] pc = "kommo.updateLink" -> "updateLeadCustomField:link"
    [] pc = "kommo.addNoteToLead" -> "addNoteToLead"
    [] OTHER -> "none"

Waiting(i) == w[i].pc \notin {"idle", "responded", "returned", "threw"}

\* C23: the calls of a webhook invocation are made in the order of StepOrder:
\* getLead comes first and only for a request that passed the parse and the
\* filter, createContract only for a fetched lead without a contract link and
\* with the replacement set built, the auxiliary calls only once
\* createContract has returned its document; the one answer the invocation
\* waits for is that of the call made last, and once it has responded it
\* waits for none.
C23_StepsInFixedOrder ==
  \A i \in Webhooks :
    /\ \A a, b \in 1..Len(w[i].log) :
         a < b => Rank(w[i].log[a]) < Rank(w[i].log[b])
    /\ Range(w[i].log) \subseteq Range(StepOrder)
    /\ w[i].log # <<>> => (w[i].log[1] = "getLead" /\ PassesFilter(w[i].req))
    /\ "createContract" \in Range(w[i].log) =>
         /\ Fetched(i)
         /\ ~HasContractLink(w[i].lead)
         /\ w[i].replacements
              = buildReplacements(ObjectEntries(fieldMapping), w[i].lead, <<>>)
    /\ Range(w[i].log) \cap AuxiliaryCalls # {} => DocumentCreated(i)
    /\ Waiting(i) =>
         /\ w[i].log # <<>>
         /\ CallOf(w[i].pc) = w[i].log[Len(w[i].log)]
         /\ w[i].nres = 0

\* every step has been taken, the note last
C23_Witness ==
  \E i \in Webhooks :
    /\ Responded(i)
    /\ {"getLead", "createContract", "sendContractForSignature",
        "updateLeadCustomField:autentique", "updateLeadCustomField:link",
        "addNoteToLead"} \subseteq Range(w[i].log)
    /\ w[i].log[Len(w[i].log)] = "addNoteToLead"

RetriableCalls ==
  {"getLead", "createContract", "sendContractForSignature", "addNoteToLead",
   "updateLeadCustomField:autentique", "updateLeadCustomField:link"}

\* C24: within one webhook invocation each of getLead, createContract,
\* sendContractForSignature, addNoteToLead and the two link-field updates is
\* called at most once, failed or not.
C24_NoRetry ==
  \A i \in Webhooks :
    \A op \in RetriableCalls : Count(w[i].log, op) <= 1

\* two calls have failed and the invocation has ended without a second try
C24_Witness ==
  \E i \in Webhooks :
    /\ Responded(i)
    /\ {"updateLeadCustomField:link", "addNoteToLead"} \subseteq w[i].failed
    /\ Count(w[i].log, "updateLeadCustomField:link") = 1
    /\ Count(w[i].log, "addNoteToLead") = 1

-----------------------------------------------------------------------------
(* The optional signature step                                               *)

SignatureCalled(i) == "sendContractForSignature" \in Range(w[i].log)

SignatureSucceeded(i) ==
  SignatureCalled(i) /\ "sendContractForSignature" \notin w[i].failed

\* C25: sendContractForSignature is called only when AUTENTIQUE_API_KEY is
\* set and the lead's e-mail field is not empty; an invocation that created
\* its document and skipped the call still answers 200, success:true; the
\* answer holds `autentique` exactly when the call succeeded, and the
\* Autentique-link field update is attempted exactly when the call succeeded
\* and autentiqueLinkFieldId is configured.
C25_SignatureStepOptional ==
  \A i \in Webhooks :
    /\ SignatureCalled(i) =>
         /\ Truthy(env["AUTENTIQUE_API_KEY"])
         /\ Truthy(getCustomFieldValue(w[i].lead, LeadEmailFieldId))
         /\ DocumentCreated(i)
    /\ Responded(i) =>
         /\ "autentique" \in w[i].res.keys <=> SignatureSucceeded(i)
         /\ "autentique" \in w[i].res.keys =>
              /\ Len(sigs) = 1
              /\ w[i].res.autentique.id = sigs[1].id
         /\ "updateLeadCustomField:autentique" \in Range(w[i].log)
              <=> (SignatureSucceeded(i)
                     /\ Truthy(settings.kommo.autentiqueLinkFieldId))
         /\ (DocumentCreated(i) /\ ~SignatureCalled(i)) =>
              /\ CreatedResponse(i)
              /\ sigs = <<>>

\* the signature was skipped for a lead without e-mail while the feature is
\* on, and the invocation answered with its document
C25_Witness ==
  \E i \in Webhooks :
    /\ Responded(i)
    /\ DocumentCreated(i)
    /\ settings.autentique.enabled
    /\ ~SignatureCalled(i)
    /\ w[i].res.success
    /\ "autentique" \notin w[i].res.keys

-----------------------------------------------------------------------------
(* One response per invocation                                               *)

\* the environments of the webhook with the trigger and the share role fixed
LiveEnvs ==
  { e \in WebhookEnvs :
      \/ /\ e["KOMMO_TRIGGER_PIPELINE_ID"] = Str(<<"7">>)
         /\ e["KOMMO_TRIGGER_STATUS_ID"] = Str(<<"9">>)
         /\ e["GOOGLE_SHARE_ROLE"] = Undefined
         /\ e["AUTENTIQUE_SANDBOX"] = Undefined
      \/ KommoClient_error(e) # ""
      \/ GoogleDocsClient_error(e) # "" }

InitLive ==
  /\ env \in LiveEnvs
  /\ \E lead \in Leads : crm = [lead |-> lead, notes |-> <<>>]
  /\ drive = <<>>
  /\ sigs = <<>>
  /\ w = [i \in Slots |-> Fresh]
  /\ probe = NoProbe

\* every awaited call is answered or fails in the end
SpecLive == InitLive /\ [][Next]_vars /\ WF_vars(Next)

\* nothing of invocation i and nothing in the backends changes
NothingMore(i) ==
  /\ w'[i] = w[i]
  /\ crm' = crm
  /\ drive' = drive
  /\ sigs' = sigs

\* C26: a webhook invocation calls the response at most once, and has called
\* it exactly once when it has responded; after the response it makes no
\* backend call and changes nothing; and, every awaited call being answered
\* in the end, every invocation responds.
C26_ExactlyOneResponse ==
  /\ [](\A i \in Webhooks :
          /\ w[i].nres <= 1
          /\ Responded(i) <=> w[i].nres = 1
          /\ w[i].pc # "threw")
  /\ [][\A i \in Webhooks : Responded(i) => NothingMore(i)]_vars
  /\ \A i \in Slots : (w[i].entry = "webhook") ~> Responded(i)

\* the invocation has answered after its last auxiliary call
C26_Witness ==
  \E i \in Webhooks :
    /\ Responded(i)
    /\ w[i].nres = 1
    /\ w[i].log # <<>>
    /\ w[i].log[Len(w[i].log)] = "addNoteToLead"
    /\ crm.notes # <<>>

-----------------------------------------------------------------------------
(* The writes to the CRM                                                     *)

\* `part` occurs in `whole` as a run of consecutive elements
Occurs(part, whole) ==
  \E a \in 0..(Len(whole) - Len(part)) : SubSeq(whole, a + 1, a + Len(part)) = part

\* the call `op` of invocation i was made and has succeeded
Succeeded(i, op) ==
  /\ op \in Range(w[i].log)
  /\ op \notin w[i].failed
  /\ CallOf(w[i].pc) # op

\* C27: a webhook invocation that has called updateLeadCustomField or
\* addNoteToLead, or after whose fetch the CRM holds something new, has a
\* document returned by its createContract; the value stored by its update
\* of the contract-link field, and the link in its note, are the link of
\* that document, which is documentLink in the answer.
C27_CrmWritesCarryTheDocumentLink ==
  \A i \in Webhooks :
    /\ (\/ Range(w[i].log) \cap CrmWrites # {}
        \/ crm.notes # <<>>
        \/ (Fetched(i) /\ crm.lead # w[i].lead)) =>
         /\ DocumentCreated(i)
         /\ "createContract" \notin w[i].failed
         /\ Len(drive) = 1
         /\ w[i].document.id = drive[1].id
         /\ w[i].document.link = WebViewLink(drive[1].id)
    /\ Succeeded(i, "updateLeadCustomField:link") =>
         StoredLink(crm.lead) = Str(w[i].document.link)
    /\ Succeeded(i, "addNoteToLead") =>
         /\ Len(crm.notes) = 1
         /\ Occurs(w[i].document.link, crm.notes[1])
    /\ (Responded(i) /\ DocumentCreated(i)) =>
         /\ "documentLink" \in w[i].res.keys
         /\ w[i].res.documentLink = w[i].document.link

\* the link of the new document is in the field, in the note and in the answer
C27_Witness ==
  \E i \in Webhooks :
    /\ Responded(i)
    /\ ~HasContractLink(w[i].lead)
    /\ StoredLink(crm.lead) = Str(w[i].res.documentLink)
    /\ Len(crm.notes) = 1
    /\ Occurs(w[i].res.documentLink, crm.notes[1])

-----------------------------------------------------------------------------
(* Invocations for one lead, one after the other                             *)

MaxDocuments == 2

\* the next request arrives once the answer to the last one is out
webhook_next(i) ==
  /\ w[i].pc = "responded"
  /\ w[i].entry = "webhook"
  /\ Len(drive) < MaxDocuments
  /\ \E req \in Requests :
       w' = [w EXCEPT ![i] = handler([Fresh EXCEPT !.entry = "webhook", !.req = req])]
  /\ UNCHANGED <<crm, drive, sigs, Others>>

NextSequence ==
  \/ Next
  \/ \E i \in {1} : webhook_next(i)

\* the environments that share the document with one address at most and
\* configure the signature in full or not at all
SequenceEnvs ==
  { e \in LiveEnvs :
      /\ e["GOOGLE_SHARE_WITH"] \in {Str(ShareWithEnv(0)), Str(ShareWithEnv(1))}
      /\ Truthy(e["AUTENTIQUE_API_KEY"])
            => (/\ Truthy(e["KOMMO_AUTENTIQUE_LINK_FIELD_ID"])
                /\ Truthy(e["AUTENTIQUE_COMPANY_SIGNER_EMAIL"])) }

InitSequence ==
  /\ env \in SequenceEnvs
  /\ \E lead \in Leads : crm = [lead |-> lead, notes |-> <<>>]
  /\ drive = <<>>
  /\ sigs = <<>>
  /\ w = [i \in Slots |-> Fresh]
  /\ probe = NoProbe

SpecSequence == InitSequence /\ [][NextSequence]_vars

\* the contract-link field holds the link of a document created here
LinkOfDocumentStored ==
  \E k \in 1..Len(drive) : StoredLink(crm.lead) = Str(WebViewLink(drive[k].id))

\* C28: in a sequence of webhook invocations for one lead that do not
\* overlap, once the contract-link field holds the link of a created
\* document, no further document is created and the field keeps its value;
\* every later invocation that fetches the lead finds the link, calls
\* nothing but getLead, creates no document and answers with the stored link.
C28_NoSecondDocumentOnceLinkStored ==
  /\ [](LinkOfDocumentStored =>
          /\ StoredLink(crm.lead) = Str(WebViewLink(drive[Len(drive)].id))
          /\ \A i \in Webhooks :
               (Fetched(i) /\ HasContractLink(w[i].lead)) =>
                 /\ Responded(i)
                 /\ w[i].log = <<"getLead">>
                 /\ ~DocumentCreated(i)
                 /\ w[i].res.existingLink = StoredLink(crm.lead))
  /\ [][LinkOfDocumentStored =>
          /\ Len(drive') = Len(drive)
          /\ StoredLink(crm'.lead) = StoredLink(crm.lead)]_vars

\* a later invocation has answered with the link the first one stored
C28_Witness ==
  \E i \in Webhooks :
    /\ Responded(i)
    /\ Len(drive) = 1
    /\ w[i].log = <<"getLead">>
    /\ w[i].res.existingLink = Str(WebViewLink(drive[1].id))

-----------------------------------------------------------------------------
(* Two invocations for one lead, interleaved                                 *)

\* the lead has no contract yet; nothing is shared, signed or posted
InitPair ==
  /\ env = BaseEnv
  /\ crm = [lead |-> LeadWith(Undefined, Undefined), notes |-> <<>>]
  /\ drive = <<>>
  /\ sigs = <<>>
  /\ w = [i \in Slots |-> Fresh]
  /\ probe = NoProbe

\* each invocation moves when one of its awaited calls is answered
NextPair ==
  \E i \in Slots :
    \/ webhook(i)
    \/ kommo_getLead(i)
    \/ docs_documents_get(i)
    \/ drive_files_create(i)
    \/ docs_batchUpdate_insert(i)
    \/ docs_batchUpdate_replace(i)
    \/ drive_permissions_create_anyone(i)
    \/ drive_files_get(i)
    \/ kommo_updateLink(i)

SpecPair == InitPair /\ [][NextPair]_vars

Creators == {i \in Webhooks : "createContract" \in Range(w[i].log)}

====
